---- MODULE Spec2Model ----
(***************************************************************************)
(* Model of the ERP simulator (services/erp-sim/src/index.ts) and of the   *)
(* ERP extractor (services/erp-extractor/src/index.ts) with the Postgres    *)
(* tables the extractor writes (db/migrations).                             *)
(*                                                                          *)
(* Time is counted in whole days (every timestamp the generator produces    *)
(* is a UTC midnight); day 1 is the 1st of January of the model's first     *)
(* year and day 0 stands for new Date(0), the extractor's initial           *)
(* watermark.  Math.random() is a draw of a percentage 0..99.               *)
(***************************************************************************)
EXTENDS Integers, Sequences, FiniteSets, TLC

VARIABLES
  options,               \* SimOptions given to createSimServer
  simNow,                \* simulated clock
  purchaseOrders,        \* simulator: order list
  inventorySnapshots,    \* simulator: snapshot list
  subscriptions,         \* simulator: callback addresses
  generatedMonthsByCommodity,
  pendingDeliveries,
  inventoryByCommodity,
  nextUuid,              \* randomUUID(): a fresh identifier per call
  interval,              \* simulator tick timer is set
  simListening,          \* simulator HTTP server accepts requests
  deliveries,            \* webhook POSTs issued and not yet answered
  extRunning,            \* extractor process is started (listening, timer set)
  pollHandle,            \* extractor poll timer is set
  exitCode,              \* extractor process: 0 while alive, else its exit code
  lastSync,              \* extractor: order watermark
  lastInventorySync,     \* extractor: inventory watermark
  tasks,                 \* extractor: in-flight webhook handlers and polls
  raw_erp_data,          \* table raw_erp_data (committed rows)
  erp_purchase_orders,   \* table erp_purchase_orders (committed rows)
  erp_inventory_snapshots, \* table erp_inventory_snapshots (committed rows)
  rawSeq,                \* bigserial sequence of raw_erp_data.id
  faults,                \* failures injected so far (network, database)
  crashes,               \* extractor crashes so far
  response,              \* the simulator's answer to the last query of a client
  gui,                   \* the GUI: its orders, duration filter, clock and views
  interrupted,           \* history: batches a crash cut short
  webhookFailed,         \* history: ids of the orders whose webhook POST failed
  storeFailed,           \* history: records of poll batches whose transaction failed
  commits,               \* history: the transactions that committed
  raced,                 \* history: keys two transactions worked on at once
  replies                \* the answers the webhook route has sent

simVars == <<options, simNow, purchaseOrders, inventorySnapshots, subscriptions,
             generatedMonthsByCommodity, pendingDeliveries, inventoryByCommodity,
             nextUuid, interval, simListening, deliveries>>

extVars == <<extRunning, pollHandle, exitCode, lastSync, lastInventorySync, tasks>>
dbVars == <<raw_erp_data, erp_purchase_orders, erp_inventory_snapshots, rawSeq>>
envVars == <<faults, crashes, response, gui>>
histVars == <<interrupted, webhookFailed, storeFailed, commits, raced, replies>>

vars == <<simVars, extVars, dbVars, envVars, histVars>>

----------------------------------------------------------------------------
(* Bounds of the model *)

MaxMonth == 30          \* calendar horizon, in months
MaxLiveDays == 45       \* simulated days of live ticks explored
MaxTasks == 2           \* extractor handlers (webhook, poll) in flight at once
MaxFaults == 1          \* injected failures (simulator requests, transactions)
MaxCrashes == 1         \* extractor crashes followed by a restart

----------------------------------------------------------------------------
(* Generic helpers *)

Max(a, b) == IF a >= b THEN a ELSE b
Min(a, b) == IF a <= b THEN a ELSE b
Range(s) == {s[i] : i \in DOMAIN s}
Lookup(f, k, default) == IF k \in DOMAIN f THEN f[k] ELSE default

----------------------------------------------------------------------------
(* Calendar: addDays, monthKey, startOfMonthUTC, endOfMonthUTC *)

MonthLengths == <<31, 28, 31, 30, 31, 30, 31, 31, 30, 31, 30, 31>>
MonthLen(k) == MonthLengths[(k % 12) + 1]

RECURSIVE MonthStartDay(_)
MonthStartDay(k) == IF k = 0 THEN 1 ELSE MonthStartDay(k - 1) + MonthLen(k - 1)

MonthStartTable == [k \in 0..(MaxMonth + 1) |-> MonthStartDay(k)]

addDays(date, days) == date + days

\* The calendar month (counted from month 0) of every day of the horizon.
MonthOfDay ==
  [d \in 1..(MonthStartTable[MaxMonth + 1] - 1) |->
     CHOOSE k \in 0..MaxMonth : MonthStartTable[k] <= d /\ d < MonthStartTable[k + 1]]

monthKey(d) == MonthOfDay[d]

startOfMonthUTC(d) == MonthStartTable[monthKey(d)]

\* endOfMonthUTC(d) is 23:59:59.999 of the month's last day; the generator only
\* uses floor((monthEnd - monthStart) / one day), which is the month length - 1.
endOfMonthDaySpan(monthStart) == MonthLen(monthKey(monthStart)) - 1

----------------------------------------------------------------------------
(* Configuration *)

commodities == options.commodities
CommodityIds == Range(commodities)
purchaseProbabilityPerMonth == 65
companyId == "00000000-0000-0000-0000-000000000001"
currency == "USD"

\* basePrice of the default commodities, in cents.
basePrice == [sugar |-> 45, flour |-> 35]

\* One Math.random() draw per use in maybeGenerateMonthlyOrder: the purchase
\* gate, the order day offset, the quantity and the price (percentages).
Draws == {[gate |-> 90, off |-> 0, qty |-> 50, price |-> 50],
          [gate |-> 10, off |-> 10, qty |-> 0, price |-> 100],
          [gate |-> 10, off |-> 75, qty |-> 75, price |-> 0]}

\* Quantities are in thousandths of a unit.
\* Number(x.toFixed(2)): x rounded to the nearest hundredth, for x >= 0.
toFixed2(x) == ((x + 5) \div 10) * 10

\* randomWithin(base, variationPct): base + base * pct * (random - 0.5) * 2,
\* floored at 0; `rand` is the draw, in percent.
randomWithin(base, variationPct, rand) ==
  Max(0, base + ((base * variationPct * (2 * rand - 100)) \div 10000))

----------------------------------------------------------------------------
(* Simulator: order generation *)

\* The generator's mutable bookkeeping, threaded through the loops:
\* months = generatedMonthsByCommodity, pending = pendingDeliveries,
\* uuid = the next randomUUID().
GenState(months, pending, uuid) == [months |-> months, pending |-> pending, uuid |-> uuid]

\* Variant that delivers on the day of the order.
deliveryDateSameDay(createdAt) == createdAt

\* const deliveryDate = addDays(createdAt, 30)
deliveryDateOf(createdAt) == addDays(createdAt, 30)

\* Variant in which no month counts as considered.
alreadyGeneratedNever(already, key) == FALSE

\* if (already.has(key)) return null
alreadyGenerated(already, key) == key \in already

\* Returns the new bookkeeping and the order as a sequence of length 0 (null) or 1.
maybeGenerateMonthlyOrder(g, commodity, monthStart, r) ==
  LET key == monthKey(monthStart)
      already == g.months[commodity]
      g1 == [g EXCEPT !.months[commodity] = already \cup {key}]
  IN IF alreadyGenerated(already, key) THEN [g |-> g, po |-> <<>>]
     ELSE IF r.gate > purchaseProbabilityPerMonth THEN [g |-> g1, po |-> <<>>]
     ELSE
       LET daySpan == Max(1, endOfMonthDaySpan(monthStart))
           orderDayOffset == (r.off * Min(daySpan, 28)) \div 100
           createdAt == addDays(monthStart, orderDayOffset)
           deliveryDate == deliveryDateOf(createdAt)
           monthlyNeed == Lookup(options.consumptionPerDay, commodity, 10000) * 30
           quantity == randomWithin(monthlyNeed, 35, r.qty)
           pricePerUnit == randomWithin(basePrice[commodity], 20, r.price)
           po == [id |-> <<"po", g.uuid>>, companyId |-> companyId,
                  commodityId |-> commodity, quantity |-> toFixed2(quantity),
                  pricePerUnit |-> pricePerUnit, currency |-> currency,
                  deliveryDate |-> deliveryDate, createdAt |-> createdAt,
                  status |-> "confirmed"]
           pd == [commodityId |-> commodity, quantity |-> po.quantity,
                  deliveryDate |-> deliveryDate, purchaseOrderId |-> po.id]
       IN [g |-> [g1 EXCEPT !.pending = Append(@, pd), !.uuid = @ + 1],
           po |-> <<po>>]

\* `for (const commodity of commodities)` around maybeGenerateMonthlyOrder,
\* from the i-th commodity on; rnd[c] is the draw used for commodity c.
RECURSIVE GenerateMonth(_, _, _, _)
GenerateMonth(g, i, monthStart, rnd) ==
  IF i > Len(commodities) THEN [g |-> g, generated |-> <<>>]
  ELSE LET one == maybeGenerateMonthlyOrder(g, commodities[i], monthStart, rnd[commodities[i]])
           rest == GenerateMonth(one.g, i + 1, monthStart, rnd)
       IN [g |-> rest.g, generated |-> one.po \o rest.generated]

\* generated.sort((a, b) => createdAt(a) - createdAt(b)): a stable sort.
RECURSIVE InsertByCreatedAt(_, _)
InsertByCreatedAt(sorted, po) ==
  IF sorted = <<>> THEN <<po>>
  ELSE IF sorted[Len(sorted)].createdAt <= po.createdAt THEN Append(sorted, po)
  ELSE Append(InsertByCreatedAt(SubSeq(sorted, 1, Len(sorted) - 1), po), sorted[Len(sorted)])

RECURSIVE SortByCreatedAt(_)
SortByCreatedAt(s) ==
  IF s = <<>> THEN <<>>
  ELSE InsertByCreatedAt(SortByCreatedAt(SubSeq(s, 1, Len(s) - 1)), s[Len(s)])

\* Variant in which the fan-out stops after the first subscriber.
notifySubscribersFirst(po) ==
  IF subscriptions = {} THEN {}
  ELSE {[po |-> po, url |-> CHOOSE u \in subscriptions : TRUE]}

\* notifySubscribers(po): one POST per callback address registered now.
notifySubscribers(po) == {[po |-> po, url |-> u] : u \in subscriptions}

RECURSIVE NotifyAll(_)
NotifyAll(orders) ==
  IF orders = <<>> THEN {}
  ELSE notifySubscribers(orders[1]) \cup NotifyAll(Tail(orders))

\* Variant that notifies whatever the flag says.
pushOrdersPostsAlways(orders, notify) == NotifyAll(orders)

\* pushOrders(orders, notify): the order list and the POSTs issued after it
\* (pushOrdersListReplacing: a variant that keeps only the newest orders).
pushOrdersListReplacing(list, orders) == orders
pushOrdersList(list, orders) == list \o orders
pushOrdersPosts(orders, notify) == IF notify THEN NotifyAll(orders) ELSE {}

----------------------------------------------------------------------------
(* Simulator: inventory *)

\* Variant that records the first commodity only.
recordWeeklyInventoryFirstOnly(asOf, inv) ==
  [i \in 1..1 |->
     [id |-> <<commodities[i], asOf>>, commodityId |-> commodities[i],
      onHand |-> toFixed2(Lookup(inv, commodities[i], 0)), asOf |-> asOf]]

\* recordWeeklyInventory(asOf, inventoryByCommodity): one snapshot per commodity.
recordWeeklyInventory(asOf, inv) ==
  [i \in 1..Len(commodities) |->
     [id |-> <<commodities[i], asOf>>, commodityId |-> commodities[i],
      onHand |-> toFixed2(Lookup(inv, commodities[i], 0)), asOf |-> asOf]]

\* Mutant of consume: the floor at zero is missing.
consumeUnfloored(inv, days) ==
  [c \in DOMAIN inv |-> inv[c] - Lookup(options.consumptionPerDay, c, 0) * days]

\* Steady consumption over `days` days, floored at zero.
consume(inv, days) ==
  [c \in DOMAIN inv |->
     Max(0, inv[c] - Lookup(options.consumptionPerDay, c, 0) * days)]

\* Deliveries that have arrived by `to` are added in list order.
RECURSIVE applyDeliveries(_, _, _)
applyDeliveries(inv, pending, to) ==
  IF pending = <<>> THEN inv
  ELSE LET d == pending[1]
           inv1 == IF d.deliveryDate <= to
                     THEN [inv EXCEPT ![d.commodityId] = @ + d.quantity]
                     ELSE inv
       IN applyDeliveries(inv1, Tail(pending), to)

\* Variant that leaves applied deliveries on the pending list.
remainingDeliveriesKept(pending, to) == pending

remainingDeliveries(pending, to) ==
  SelectSeq(pending, LAMBDA d : ~(d.deliveryDate <= to))

\* advanceInventory(from, to): days = max(0, round((to - from) / one day)).
\* Variant that applies the deliveries before the consumption.
advanceInventoryDeliveriesFirst(inv, pending, from, to) ==
  LET days == Max(0, to - from)
      inv1 == applyDeliveries(inv, pending, to)
      inv2 == IF days > 0 THEN consume(inv1, days) ELSE inv1
  IN [inv |-> inv2, pending |-> remainingDeliveries(pending, to),
      snapshots |-> recordWeeklyInventory(to, inv2)]

advanceInventory(inv, pending, from, to) ==
  LET days == Max(0, to - from)
      inv1 == IF days > 0 THEN consume(inv, days) ELSE inv
      inv2 == applyDeliveries(inv1, pending, to)
  IN [inv |-> inv2, pending |-> remainingDeliveries(pending, to),
      snapshots |-> recordWeeklyInventory(to, inv2)]

initialInventoryMap ==
  [c \in CommodityIds |-> Lookup(options.initialInventory, c, 1000000)]

----------------------------------------------------------------------------
(* Simulator: bootstrapHistory *)

\* The m-loop of bootstrapHistory: m = months .. 0, every commodity per month.
\* rnd[<<m, c>>] is the draw used for commodity c in iteration m.
RECURSIVE HistoryOrders(_, _, _, _)
HistoryOrders(g, m, nowMonthStart, rnd) ==
  IF m < 0 THEN [g |-> g, generated |-> <<>>]
  ELSE LET monthStart == addDays(nowMonthStart, -(m * 30))
           monthStartUTC == startOfMonthUTC(monthStart)
           one == GenerateMonth(g, 1, monthStartUTC, [c \in CommodityIds |-> rnd[<<m, c>>]])
           rest == HistoryOrders(one.g, m - 1, nowMonthStart, rnd)
       IN [g |-> rest.g, generated |-> one.generated \o rest.generated]

\* The while loop of bootstrapHistory, from t on.
RECURSIVE HistoryInventory(_, _, _, _, _)
HistoryInventory(t, now, inv, pending, snapshots) ==
  IF ~(t <= now) THEN [inv |-> inv, pending |-> pending, snapshots |-> snapshots]
  ELSE LET next == addDays(t, options.stepDays)
           inv1 == consume(inv, options.stepDays)
           inv2 == applyDeliveries(inv1, pending, next)
       IN HistoryInventory(next, now, inv2, remainingDeliveries(pending, next),
                           snapshots \o recordWeeklyInventory(next, inv2))

bootstrapHistory(months, nowMonthStart, rnd) ==
  LET historyStart == addDays(nowMonthStart, -(months * 30))
      g0 == GenState(generatedMonthsByCommodity, pendingDeliveries, nextUuid)
      orders == HistoryOrders(g0, months, nowMonthStart, rnd)
      generated == SortByCreatedAt(orders.generated)
      t0 == startOfMonthUTC(historyStart)
      inv0 == initialInventoryMap
      first == recordWeeklyInventory(t0, inv0)
      run == HistoryInventory(t0, nowMonthStart, inv0, orders.g.pending,
                              inventorySnapshots \o first)
  IN [simNow |-> nowMonthStart,
      purchaseOrders |-> pushOrdersList(purchaseOrders, generated),
      months |-> orders.g.months, uuid |-> orders.g.uuid,
      inv |-> run.inv, pending |-> run.pending, snapshots |-> run.snapshots]

----------------------------------------------------------------------------
(* Simulator: construction, start(), the tick, stop() *)

NowMonthStart == MonthStartTable[options.nowMonth]

SimOptions(coms, stepDays, historyMonths, disableHistory, nowMonth, initialInventory, consumptionPerDay, staticOrders) ==
  [commodities |-> coms, stepDays |-> stepDays, historyMonths |-> historyMonths,
   disableHistory |-> disableHistory, disableGenerator |-> FALSE,
   nowMonth |-> nowMonth, initialInventory |-> initialInventory,
   consumptionPerDay |-> consumptionPerDay, staticOrders |-> staticOrders]

TwoCommodities == <<"sugar", "flour">>
OneCommodity == <<"sugar">>

\* Configurations explored.  nowMonth is the month of the wall clock at start
\* (14 = March and 16 = May of the second year); a commodity missing from
\* initialInventory or consumptionPerDay takes the code's defaults.
SimConfigs ==
  { SimOptions(TwoCommodities, 7, 1, FALSE, 14, [sugar |-> 0, flour |-> 400], [sugar |-> 20, flour |-> 0], <<>>),
    SimOptions(TwoCommodities, 30, 2, FALSE, 16, [sugar |-> 1000], [flour |-> 10], <<>>),
    SimOptions(TwoCommodities, 7, 0, TRUE, 16, [sugar |-> 300, flour |-> 50], [sugar |-> 30, flour |-> 10], <<>>),
    SimOptions(TwoCommodities, 10, 1, FALSE, 16, [sugar |-> 600, flour |-> 0], [sugar |-> 10, flour |-> 20], <<>>),
    SimOptions(OneCommodity, 30, 3, FALSE, 15, [sugar |-> 1000], [sugar |-> 10], <<>>) }

\* createSimServer(options): the state after construction.
SimConstructed(cfg) ==
  /\ options = cfg
  /\ simNow = MonthStartTable[cfg.nowMonth]
  /\ purchaseOrders = <<>>
  /\ inventorySnapshots = <<>>
  /\ subscriptions = {}
  /\ generatedMonthsByCommodity = [c \in Range(cfg.commodities) |-> {}]
  /\ pendingDeliveries = <<>>
  /\ inventoryByCommodity =
       [c \in Range(cfg.commodities) |-> Lookup(cfg.initialInventory, c, 1000000)]
  /\ nextUuid = 1
  /\ interval = FALSE
  /\ simListening = FALSE
  /\ deliveries = {}

HistoryDraws ==
  IF options.disableHistory THEN {<<>>}
  ELSE [((0..options.historyMonths) \X CommodityIds) -> Draws]

\* start(): bootstrapHistory, the static orders, the tick timer, listen.
SimStart ==
  /\ ~simListening /\ ~interval /\ purchaseOrders = <<>> /\ inventorySnapshots = <<>>
  /\ \E rnd \in HistoryDraws :
       \E b \in {IF options.disableHistory
                    THEN [simNow |-> simNow, purchaseOrders |-> purchaseOrders,
                          months |-> generatedMonthsByCommodity, uuid |-> nextUuid,
                          inv |-> inventoryByCommodity, pending |-> pendingDeliveries,
                          snapshots |-> inventorySnapshots]
                    ELSE bootstrapHistory(options.historyMonths, NowMonthStart, rnd)} :
          /\ simNow' = b.simNow
          /\ purchaseOrders' = pushOrdersList(b.purchaseOrders, options.staticOrders)
          /\ generatedMonthsByCommodity' = b.months
          /\ nextUuid' = b.uuid
          /\ inventoryByCommodity' = b.inv
          /\ pendingDeliveries' = b.pending
          /\ inventorySnapshots' = b.snapshots
          /\ deliveries' = deliveries
               \cup (IF options.disableHistory THEN {}
                     ELSE pushOrdersPosts(b.purchaseOrders, FALSE))
               \cup pushOrdersPosts(options.staticOrders, FALSE)
  /\ interval' = ~options.disableGenerator
  /\ simListening' = TRUE
  /\ UNCHANGED <<options, subscriptions>>
  /\ UNCHANGED <<extVars, dbVars, envVars, histVars>>

\* What one run of the setInterval callback computes from the draws rnd.
TickResult(rnd) ==
  LET before == simNow
      after == addDays(simNow, options.stepDays)
      g0 == GenState(generatedMonthsByCommodity, pendingDeliveries, nextUuid)
      gen == IF monthKey(before) # monthKey(after)
               THEN GenerateMonth(g0, 1, startOfMonthUTC(after), rnd)
               ELSE [g |-> g0, generated |-> <<>>]
  IN [gen |-> gen, generated |-> SortByCreatedAt(gen.generated), after |-> after,
      adv |-> advanceInventory(inventoryByCommodity, gen.g.pending, before, after)]

\* Variant in which the callback waits for the webhook deliveries.
timerFiresAfterDeliveries == interval /\ deliveries = {}

\* setInterval(..., tickMs): the callback runs whenever the timer is set.
timerFires == interval

\* The setInterval callback of start().
Tick ==
  /\ timerFires
  /\ simNow - NowMonthStart < MaxLiveDays
  /\ \E rnd \in [CommodityIds -> Draws] :
       \E tick \in {TickResult(rnd)} :
       LET gen == tick.gen
           generated == tick.generated
           adv == tick.adv
           after == tick.after
       IN /\ purchaseOrders' = pushOrdersList(purchaseOrders, generated)
          /\ deliveries' = deliveries \cup pushOrdersPosts(generated, TRUE)
          /\ generatedMonthsByCommodity' = gen.g.months
          /\ nextUuid' = gen.g.uuid
          /\ inventoryByCommodity' = adv.inv
          /\ pendingDeliveries' = adv.pending
          /\ inventorySnapshots' = inventorySnapshots \o adv.snapshots
          /\ simNow' = after
  /\ UNCHANGED <<options, subscriptions, interval, simListening>>
  /\ UNCHANGED <<extVars, dbVars, envVars, histVars>>

\* Variant of stop() that closes the endpoint and leaves the timer running.
SimStopKeepsTimer ==
  /\ simListening
  /\ simListening' = FALSE
  /\ UNCHANGED <<options, simNow, purchaseOrders, inventorySnapshots, subscriptions,
                 generatedMonthsByCommodity, pendingDeliveries, inventoryByCommodity,
                 nextUuid, interval, deliveries>>
  /\ UNCHANGED <<extVars, dbVars, envVars, histVars>>

\* stop(): clearInterval and app.close().
SimStop ==
  /\ simListening
  /\ interval' = FALSE
  /\ simListening' = FALSE
  /\ UNCHANGED <<options, simNow, purchaseOrders, inventorySnapshots, subscriptions,
                 generatedMonthsByCommodity, pendingDeliveries, inventoryByCommodity,
                 nextUuid, deliveries>>
  /\ UNCHANGED <<extVars, dbVars, envVars, histVars>>

----------------------------------------------------------------------------
(* Simulator: query surface *)

\* GET /erp/:companyId/purchase-orders?since= : createdAt strictly after since.
\* Variant whose filter keeps the orders created at `since`.
purchaseOrdersSinceInclusive(since) ==
  SelectSeq(purchaseOrders, LAMBDA po : po.createdAt >= since)

purchaseOrdersSince(since) ==
  SelectSeq(purchaseOrders, LAMBDA po : po.createdAt > since)

\* GET /erp/:companyId/inventory?since= : asOf strictly after since.
inventorySince(since) ==
  SelectSeq(inventorySnapshots, LAMBDA sn : sn.asOf > since)

----------------------------------------------------------------------------
(* Extractor: tables and transactions *)

ExtractorUrl == "extractor"
\* Mutant of EpochDate: the watermarks start at the wall clock of the start.
EpochNow == MonthStartTable[16]

EpochDate == 0                  \* new Date(0)

PurchaseOrderType == "purchase_order"
InventoryType == "inventory_snapshot"

\* The time stamp a batch advances its watermark by.
stampOf(type, rec) == IF type = PurchaseOrderType THEN rec.createdAt ELSE rec.asOf

\* Unique key of raw_erp_data: (company_id, record_type, erp_record_id), with
\* erp_record_id generated as payload->>'id'; one company in the model.
RawKey(row) == <<row.record_type, row.erp_record_id>>

\* Primary key of the structured tables: erp_purchase_orders (id) and
\* erp_inventory_snapshots (company_id, commodity_id, as_of).
StructKeyOf(type, rec) ==
  IF type = PurchaseOrderType THEN <<type, rec.id>>
  ELSE <<type, rec.commodityId, rec.asOf>>

\* Mutant of StructRowKey: the conflict target is the whole row.
StructRowKeyWhole(row) == <<row.table, row>>

StructRowKey(row) ==
  IF row.table = PurchaseOrderType THEN <<row.table, row.id>>
  ELSE <<row.table, row.commodity_id, row.as_of>>

rawRowOf(type, rec, id) ==
  [id |-> id, record_type |-> type, erp_record_id |-> rec.id, payload |-> rec]

\* Variant of the VALUES that leaves the back-reference null.
structRowOfUnreferenced(type, rec, rawId) ==
  IF type = PurchaseOrderType
    THEN [table |-> type, id |-> rec.id, commodity_id |-> rec.commodityId,
          quantity |-> rec.quantity, delivery_date |-> rec.deliveryDate,
          created_at |-> rec.createdAt, status |-> rec.status,
          raw_erp_data_id |-> 0]
    ELSE [table |-> type, commodity_id |-> rec.commodityId, on_hand |-> rec.onHand,
          as_of |-> rec.asOf, raw_erp_data_id |-> 0]

\* The VALUES of the structured INSERT.
structRowOf(type, rec, rawId) ==
  IF type = PurchaseOrderType
    THEN [table |-> type, id |-> rec.id, commodity_id |-> rec.commodityId,
          quantity |-> rec.quantity, delivery_date |-> rec.deliveryDate,
          created_at |-> rec.createdAt, status |-> rec.status,
          raw_erp_data_id |-> rawId]
    ELSE [table |-> type, commodity_id |-> rec.commodityId, on_hand |-> rec.onHand,
          as_of |-> rec.asOf, raw_erp_data_id |-> rawId]

structTable == erp_purchase_orders \cup erp_inventory_snapshots

\* A transaction: state is none (not begun), rawWait (the raw INSERT waits for
\* a concurrent transaction holding the same key), raw (raw statement done) or
\* struct (both statements done); raw and struct hold the uncommitted rows.
\* rawId 0 stands for null.
NoTx == [state |-> "none", raw |-> {}, rawId |-> 0, struct |-> {}]

IdleTask ==
  [kind |-> "idle", phase |-> "idle", type |-> "none", since |-> 0, batch |-> <<>>,
   i |-> 0, tx |-> NoTx, failed |-> {}, effects |-> {}]

TaskIds == 1..MaxTasks

\* Mutant of otherRaw: the raw INSERT does not wait for a concurrent one.
otherRawUnseen(t) == {}

\* Uncommitted rows held by the transactions of the other tasks.
otherRaw(t) == UNION {tasks[u].tx.raw : u \in TaskIds \ {t}}
otherStruct(t) == UNION {tasks[u].tx.struct : u \in TaskIds \ {t}}

Storing(t) == tasks[t].phase \in {"storeOrders", "storeInventory"}
Current(t) == tasks[t].batch[tasks[t].i]

\* Mutant of committedRawWith: no conflict on the raw key is detected.
committedRawWithNone(key) == {}

committedRawWith(key) == {r \in raw_erp_data : RawKey(r) = key}

\* The newest time stamp of a batch (the reduce of storeOrders / storeInventory).
RECURSIVE newestOf(_, _)
newestOf(type, batch) ==
  IF Len(batch) = 1 THEN stampOf(type, batch[1])
  ELSE Max(stampOf(type, batch[1]), newestOf(type, Tail(batch)))

\* Variant that assigns the newest time stamp of the batch unconditionally.
advanceWatermarkToNewest(type, batch, watermark) ==
  IF batch # <<>> THEN newestOf(type, batch) ELSE watermark

\* if (newest && newest > lastSync) lastSync = newest
advanceWatermark(type, batch, watermark) ==
  IF batch # <<>> /\ newestOf(type, batch) > watermark
    THEN newestOf(type, batch) ELSE watermark

\* Variant of rollback that undoes the structured rows only.
rollbackKeptRaw(table, uncommitted) ==
  table \cup {r \in uncommitted : "payload" \in DOMAIN r}

\* Mutant of rollback: the rows of the failed transaction stay.
rollbackKept(table, uncommitted) == table \cup uncommitted

\* ROLLBACK: the tables as they are left when a transaction is rolled back.
rollback(table, uncommitted) == table

\* Variant in which a committed transaction leaves no row.
commitDropped(table, uncommitted) == table

\* COMMIT: the transaction's rows become visible.
commit(table, uncommitted) == table \cup uncommitted

\* Variant in which the loop over the batch ends after any record.
lastRecordAny(task) == TRUE

\* The for loop of storeOrders / storeInventory has reached its last record.
lastRecord(task) == task.i = Len(task.batch)

\* What the end of the transaction of record i of task t (committed or rolled
\* back) leaves: the next record, or the end of storeOrders / storeInventory
\* with the watermark advanced, followed by what the caller does next (the
\* webhook route replies 202; pollLoop requests the inventory, or returns).
AfterRecord(t, ok, wrote) ==
  LET task == tasks[t]
      failed1 == IF ok THEN task.failed ELSE task.failed \cup {task.i}
      rowEffect == IF task.type = PurchaseOrderType THEN "orderRows" ELSE "inventoryRows"
      eff1 == IF wrote THEN task.effects \cup {rowEffect} ELSE task.effects
      last == lastRecord(task)
      sync1 == IF last /\ task.type = PurchaseOrderType
                 THEN advanceWatermark(task.type, task.batch, lastSync) ELSE lastSync
      inv1 == IF last /\ task.type = InventoryType
                 THEN advanceWatermark(task.type, task.batch, lastInventorySync)
                 ELSE lastInventorySync
      eff2 == eff1 \cup (IF sync1 # lastSync THEN {"lastSync"} ELSE {})
                   \cup (IF inv1 # lastInventorySync THEN {"lastInventorySync"} ELSE {})
  IN [task |->
        IF ~last THEN [task EXCEPT !.i = @ + 1, !.tx = NoTx, !.failed = failed1,
                                   !.effects = eff1]
        ELSE IF task.kind = "poll" /\ task.type = PurchaseOrderType
          THEN [IdleTask EXCEPT !.kind = "poll", !.phase = "reqInventory",
                                !.since = lastInventorySync, !.effects = eff2]
        ELSE IdleTask,
      lastSync |-> sync1,
      lastInventorySync |-> inv1]

\* Variant that reports a failed store to the sender.
webhookReplyOnFailure(ok) == IF ok THEN 202 ELSE 500

\* reply.code(202).send({ status: 'accepted' }), whatever storeOrders did.
webhookReply(ok) == 202

EndRecord(t, ok, wrote) ==
  LET a == AfterRecord(t, ok, wrote)
  IN /\ tasks' = [tasks EXCEPT ![t] = a.task]
     /\ lastSync' = a.lastSync
     /\ lastInventorySync' = a.lastInventorySync
     /\ replies' = IF tasks[t].kind = "webhook" /\ a.task.kind = "idle"
                     THEN replies \cup {[id |-> Current(t).id, code |-> webhookReply(ok),
                                         stored |-> ok, wrote |-> wrote]}
                     ELSE replies

\* The raw INSERT ... ON CONFLICT DO NOTHING RETURNING id, with the id of the
\* row resolved by the statement's own snapshot.
TxRaw(t) ==
  /\ Storing(t) /\ tasks[t].tx.state = "none"
  /\ LET rec == Current(t)
         id == rawSeq + 1
         row == rawRowOf(tasks[t].type, rec, id)
         existing == committedRawWith(RawKey(row))
         held == {r \in otherRaw(t) : RawKey(r) = RawKey(row)}
     IN /\ rawSeq' = id
        /\ tasks' = [tasks EXCEPT ![t].tx =
             IF existing # {}
               THEN [state |-> "raw", raw |-> {}, struct |-> {},
                     rawId |-> (CHOOSE r \in existing : TRUE).id]
             ELSE IF held # {}
               THEN [state |-> "rawWait", raw |-> {}, struct |-> {}, rawId |-> id]
             ELSE [state |-> "raw", raw |-> {row}, struct |-> {}, rawId |-> id]]
  /\ raced' = IF \E u \in TaskIds \ {t} :
                     /\ Storing(u) /\ tasks[u].tx.state # "none"
                     /\ tasks[u].type = tasks[t].type /\ Current(u).id = Current(t).id
                THEN raced \cup {<<tasks[t].type, Current(t).id>>}
                ELSE raced
  /\ UNCHANGED <<simVars, extRunning, pollHandle, exitCode, lastSync, lastInventorySync,
                 raw_erp_data, erp_purchase_orders, erp_inventory_snapshots,
                 envVars, interrupted, webhookFailed, storeFailed, commits, replies>>

\* The waiting raw INSERT goes on once the transaction holding its key has
\* ended: after a commit it does nothing and the statement's snapshot, taken
\* before that commit, shows no row (rawId null); after a rollback it inserts.
TxRawResume(t) ==
  /\ Storing(t) /\ tasks[t].tx.state = "rawWait"
  /\ LET rec == Current(t)
         row == rawRowOf(tasks[t].type, rec, tasks[t].tx.rawId)
     IN /\ {r \in otherRaw(t) : RawKey(r) = RawKey(row)} = {}
        /\ tasks' = [tasks EXCEPT ![t].tx =
             IF committedRawWith(RawKey(row)) # {}
               THEN [state |-> "raw", raw |-> {}, struct |-> {}, rawId |-> 0]
               ELSE [state |-> "raw", raw |-> {row}, struct |-> {}, rawId |-> row.id]]
  /\ UNCHANGED <<simVars, extRunning, pollHandle, exitCode, lastSync, lastInventorySync,
                 dbVars, envVars, histVars>>

\* Variant of the conflict clause that writes the new row over the old one.
onConflictDoUpdate(conflicting, row) == {row}

\* ON CONFLICT (...) DO NOTHING: the rows the INSERT adds, given the committed
\* rows that have its key.
onConflictDoNothing(conflicting, row) == IF conflicting # {} THEN {} ELSE {row}

\* The structured INSERT ... ON CONFLICT DO NOTHING; it waits while another
\* transaction holds an uncommitted row with its key.
TxStruct(t) ==
  /\ Storing(t) /\ tasks[t].tx.state = "raw"
  /\ LET rec == Current(t)
         row == structRowOf(tasks[t].type, rec, tasks[t].tx.rawId)
     IN /\ {r \in otherStruct(t) : StructRowKey(r) = StructRowKey(row)} = {}
        /\ tasks' = [tasks EXCEPT ![t].tx.state = "struct", ![t].tx.struct =
             onConflictDoNothing(
               {r \in structTable : StructRowKey(r) = StructRowKey(row)}, row)]
  /\ UNCHANGED <<simVars, extRunning, pollHandle, exitCode, lastSync, lastInventorySync,
                 dbVars, envVars, histVars>>

TxCommit(t) ==
  /\ Storing(t) /\ tasks[t].tx.state = "struct"
  /\ raw_erp_data' = commit(raw_erp_data, tasks[t].tx.raw)
  /\ erp_purchase_orders' =
       commit(erp_purchase_orders,
              {r \in tasks[t].tx.struct : r.table = PurchaseOrderType})
  /\ erp_inventory_snapshots' =
       commit(erp_inventory_snapshots,
              {r \in tasks[t].tx.struct : r.table = InventoryType})
  /\ EndRecord(t, TRUE, tasks[t].tx.raw \cup tasks[t].tx.struct # {})
  /\ commits' = commits \cup
       {[type |-> tasks[t].type, id |-> Current(t).id, kind |-> tasks[t].kind,
         task |-> t, run |-> crashes]}
  /\ UNCHANGED <<simVars, extRunning, pollHandle, exitCode, rawSeq, envVars, interrupted,
                 webhookFailed, storeFailed, raced>>

\* A statement (or the connection) fails: ROLLBACK, the error is thrown to
\* storeOrders / storeInventory, which logs it and goes on.
TxFail(t) ==
  /\ Storing(t) /\ faults < MaxFaults
  /\ faults' = faults + 1
  /\ raw_erp_data' = rollback(raw_erp_data, tasks[t].tx.raw)
  /\ erp_purchase_orders' =
       rollback(erp_purchase_orders,
                {r \in tasks[t].tx.struct : r.table = PurchaseOrderType})
  /\ erp_inventory_snapshots' =
       rollback(erp_inventory_snapshots,
                {r \in tasks[t].tx.struct : r.table = InventoryType})
  /\ EndRecord(t, FALSE, FALSE)
  /\ storeFailed' = IF tasks[t].kind = "poll"
                      THEN storeFailed \cup {<<tasks[t].type, Current(t).id>>}
                      ELSE storeFailed
  /\ UNCHANGED <<simVars, extRunning, pollHandle, exitCode, rawSeq, crashes, response, gui, interrupted,
                 webhookFailed, commits, raced>>

----------------------------------------------------------------------------
(* Extractor: start(), pollLoop, the webhook route, crash *)

\* createExtractor(options): the state after construction.
ExtConstructed ==
  /\ extRunning = FALSE
  /\ pollHandle = FALSE
  /\ exitCode = 0
  /\ lastSync = EpochDate
  /\ lastInventorySync = EpochDate
  /\ tasks = [t \in TaskIds |-> IdleTask]

DbEmpty ==
  /\ raw_erp_data = {}
  /\ erp_purchase_orders = {}
  /\ erp_inventory_snapshots = {}
  /\ rawSeq = 0

NoneInterrupted == [orders |-> {}, inventory |-> {}]

\* No query has been answered yet.
NoResponse == [route |-> "none", status |-> 0, since |-> <<>>, data |-> <<>>]

\* The GUI before it has loaded anything.
GuiClosed ==
  [orders |-> <<>>, days |-> 0, now |-> 0,
   summaries |-> <<>>, grouped |-> FALSE, filtered |-> <<>>, filteredDone |-> FALSE]

TraceEmpty ==
  /\ faults = 0
  /\ crashes = 0
  /\ response = NoResponse
  /\ interrupted = NoneInterrupted
  /\ webhookFailed = {}
  /\ storeFailed = {}
  /\ commits = {}
  /\ raced = {}
  /\ replies = {}

HistoryEmpty == TraceEmpty /\ gui = GuiClosed

\* Variant in which a failed registration is thrown to start().
registerWebhookThrows(registered) == [webhookActive |-> registered, thrown |-> ~registered]

\* registerWebhook(effectivePublicUrl): true when the simulator answered 2xx;
\* a non-2xx answer or a failed request is logged and gives false.
registerWebhook(registered) == [webhookActive |-> registered, thrown |-> FALSE]

\* start(): the database answers SELECT 1, the endpoint listens, the webhook
\* is registered with the simulator (POST /erp/:companyId/subscriptions adds
\* the callback address; a failure is logged only) and the poll timer is set.
ExtStart ==
  /\ ~extRunning
  /\ extRunning' = TRUE
  /\ \E registered \in BOOLEAN :
       /\ registered => simListening
       /\ subscriptions' = IF registered THEN subscriptions \cup {ExtractorUrl}
                           ELSE subscriptions
       /\ pollHandle' = ~registerWebhook(registered).thrown
  /\ UNCHANGED <<options, simNow, purchaseOrders, inventorySnapshots,
                 generatedMonthsByCommodity, pendingDeliveries, inventoryByCommodity,
                 nextUuid, interval, simListening, deliveries>>
  /\ exitCode' = 0
  /\ UNCHANGED <<lastSync, lastInventorySync, tasks, dbVars, envVars, histVars>>

\* Variant of start() that listens before it asks the database.
startOutcomeListensFirst(dbReachable) ==
  IF dbReachable THEN [listening |-> TRUE, registers |-> TRUE, timer |-> TRUE, exitCode |-> 0]
  ELSE [listening |-> TRUE, registers |-> FALSE, timer |-> FALSE, exitCode |-> 1]

\* How far start() gets: pool.query('SELECT 1') comes first, and its rejection
\* rejects start(); the default start then logs and calls process.exit(1).
startOutcome(dbReachable) ==
  IF dbReachable THEN [listening |-> TRUE, registers |-> TRUE, timer |-> TRUE, exitCode |-> 0]
  ELSE [listening |-> FALSE, registers |-> FALSE, timer |-> FALSE, exitCode |-> 1]

\* start() while the database cannot be reached.
ExtStartFails ==
  /\ ~extRunning
  /\ \E o \in {startOutcome(FALSE)} :
       /\ extRunning' = o.listening
       /\ pollHandle' = o.timer
       /\ exitCode' = o.exitCode
       /\ subscriptions' = IF o.registers /\ simListening
                             THEN subscriptions \cup {ExtractorUrl} ELSE subscriptions
  /\ UNCHANGED <<options, simNow, purchaseOrders, inventorySnapshots,
                 generatedMonthsByCommodity, pendingDeliveries, inventoryByCommodity,
                 nextUuid, interval, simListening, deliveries>>
  /\ UNCHANGED <<lastSync, lastInventorySync, tasks, dbVars, envVars, histVars>>

\* The poll timer fires: pollLoop sends fetchPurchaseOrders(lastSync).
PollStart(t) ==
  /\ extRunning /\ pollHandle
  /\ tasks[t].kind = "idle"
  /\ tasks' = [tasks EXCEPT ![t] =
       [IdleTask EXCEPT !.kind = "poll", !.phase = "reqOrders", !.since = lastSync]]
  /\ UNCHANGED <<simVars, extRunning, pollHandle, exitCode, lastSync, lastInventorySync,
                 dbVars, envVars, histVars>>

\* The simulator answers the order request; pollLoop stores a non-empty
\* answer, and otherwise goes on to fetchInventory(lastInventorySync).
PollOrdersResponse(t) ==
  /\ tasks[t].kind = "poll" /\ tasks[t].phase = "reqOrders"
  /\ simListening
  /\ LET orders == purchaseOrdersSince(tasks[t].since)
     IN /\ tasks' = [tasks EXCEPT ![t] =
             IF Len(orders) > 0
               THEN [@ EXCEPT !.phase = "storeOrders", !.type = PurchaseOrderType,
                              !.batch = orders, !.i = 1]
               ELSE [@ EXCEPT !.phase = "reqInventory", !.since = lastInventorySync]]
        /\ interrupted' = [interrupted EXCEPT !.orders = {}]
  /\ UNCHANGED <<simVars, extRunning, pollHandle, exitCode, lastSync, lastInventorySync,
                 dbVars, envVars, webhookFailed, storeFailed, commits, raced, replies>>

\* The simulator answers the inventory request.
PollInventoryResponse(t) ==
  /\ tasks[t].kind = "poll" /\ tasks[t].phase = "reqInventory"
  /\ simListening
  /\ LET snapshots == inventorySince(tasks[t].since)
     IN /\ tasks' = [tasks EXCEPT ![t] =
             IF Len(snapshots) > 0
               THEN [@ EXCEPT !.phase = "storeInventory", !.type = InventoryType,
                              !.batch = snapshots, !.i = 1]
               ELSE IdleTask]
        /\ interrupted' = [interrupted EXCEPT !.inventory = {}]
  /\ UNCHANGED <<simVars, extRunning, pollHandle, exitCode, lastSync, lastInventorySync,
                 dbVars, envVars, webhookFailed, storeFailed, commits, raced, replies>>

\* Mutant of FetchFail: pollLoop has no catch, the rejection ends the process.
FetchFailEscapes(t) ==
  /\ tasks[t].kind = "poll" /\ tasks[t].phase \in {"reqOrders", "reqInventory"}
  /\ faults < MaxFaults
  /\ faults' = faults + 1
  /\ extRunning' = FALSE
  /\ pollHandle' = FALSE
  /\ tasks' = [u \in TaskIds |-> IdleTask]
  /\ UNCHANGED <<simVars, exitCode, lastSync, lastInventorySync, dbVars, crashes, response, gui, histVars>>

\* A request of the poll fails (network error, non-2xx, simulator down):
\* fetchPurchaseOrders / fetchInventory throws and pollLoop's catch logs it.
FetchFail(t) ==
  /\ tasks[t].kind = "poll" /\ tasks[t].phase \in {"reqOrders", "reqInventory"}
  /\ faults < MaxFaults
  /\ faults' = faults + 1
  /\ tasks' = [tasks EXCEPT ![t] = IdleTask]
  /\ UNCHANGED <<simVars, extRunning, pollHandle, exitCode, lastSync, lastInventorySync,
                 dbVars, crashes, response, gui, histVars>>

\* POST /webhooks/erp/purchase-order arrives: storeOrders([body]), then 202.
WebhookDeliver(d, t) ==
  /\ d \in deliveries /\ d.url = ExtractorUrl
  /\ extRunning
  /\ tasks[t].kind = "idle"
  /\ deliveries' = deliveries \ {d}
  /\ tasks' = [tasks EXCEPT ![t] =
       [IdleTask EXCEPT !.kind = "webhook", !.phase = "storeOrders",
                        !.type = PurchaseOrderType, !.batch = <<d.po>>, !.i = 1]]
  /\ UNCHANGED <<options, simNow, purchaseOrders, inventorySnapshots, subscriptions,
                 generatedMonthsByCommodity, pendingDeliveries, inventoryByCommodity,
                 nextUuid, interval, simListening>>
  /\ UNCHANGED <<extRunning, pollHandle, exitCode, lastSync, lastInventorySync,
                 dbVars, envVars, histVars>>

\* A webhook POST fails (subscriber unreachable or non-2xx): the simulator
\* logs a warning; nothing is retried.
WebhookFail(d) ==
  /\ d \in deliveries
  /\ deliveries' = deliveries \ {d}
  /\ webhookFailed' = webhookFailed \cup {d.po.id}
  /\ UNCHANGED <<options, simNow, purchaseOrders, inventorySnapshots, subscriptions,
                 generatedMonthsByCommodity, pendingDeliveries, inventoryByCommodity,
                 nextUuid, interval, simListening>>
  /\ UNCHANGED <<extVars, dbVars, envVars, interrupted, storeFailed, commits, raced, replies>>

\* Callback addresses of subscribers other than the extractor.
SinkUrls == {"sinkA", "sinkB"}

\* POST /erp/:companyId/subscriptions with callbackUrl u (the route answers
\* HTTP requests once listening, and app.inject() before that).
Subscribe(u) ==
  /\ u \notin subscriptions
  /\ subscriptions' = subscriptions \cup {u}
  /\ UNCHANGED <<options, simNow, purchaseOrders, inventorySnapshots,
                 generatedMonthsByCommodity, pendingDeliveries, inventoryByCommodity,
                 nextUuid, interval, simListening, deliveries>>
  /\ UNCHANGED <<extVars, dbVars, envVars, histVars>>

\* A webhook POST to a sink is answered 2xx: notifySubscribers does nothing more.
WebhookOk(d) ==
  /\ d \in deliveries /\ d.url \in SinkUrls
  /\ deliveries' = deliveries \ {d}
  /\ UNCHANGED <<options, simNow, purchaseOrders, inventorySnapshots, subscriptions,
                 generatedMonthsByCommodity, pendingDeliveries, inventoryByCommodity,
                 nextUuid, interval, simListening>>
  /\ UNCHANGED <<extVars, dbVars, envVars, histVars>>

\* An order handed to the simulator from outside (options.staticOrders or the
\* exported pushOrders), shaped like the ones of the extractor's test.
StaticOrder(n, at) ==
  [id |-> <<"static", n>>, companyId |-> companyId, commodityId |-> "sugar",
   quantity |-> 100, pricePerUnit |-> 50, currency |-> currency,
   deliveryDate |-> at, createdAt |-> at, status |-> "confirmed"]

\* The exported pushOrders(orders, notify), called by the embedding program.
PushOrders(orders, notify) ==
  /\ purchaseOrders' = pushOrdersList(purchaseOrders, orders)
  /\ deliveries' = deliveries \cup pushOrdersPosts(orders, notify)
  /\ UNCHANGED <<options, simNow, inventorySnapshots, subscriptions,
                 generatedMonthsByCommodity, pendingDeliveries, inventoryByCommodity,
                 nextUuid, interval, simListening>>
  /\ UNCHANGED <<extVars, dbVars, envVars, histVars>>

\* Variant of the subscription route that does not compare the tenant.
subscriptionStatusAnyTenant(reqCompany, body) ==
  IF body = <<>> \/ body[1] = "" THEN 400 ELSE 200

\* POST /erp/:companyId/subscriptions: 404 for another tenant, 400 when the
\* body has no (or an empty) callbackUrl, 200 otherwise.  body is <<>> for a
\* body without callbackUrl and <<url>> for one with it.
subscriptionStatus(reqCompany, body) ==
  IF reqCompany # companyId THEN 404
  ELSE IF body = <<>> \/ body[1] = "" THEN 400
  ELSE 200

PostSubscription(reqCompany, body) ==
  /\ simListening
  /\ response' = [route |-> "subscriptions", status |-> subscriptionStatus(reqCompany, body),
                  since |-> <<>>, data |-> <<>>]
  /\ subscriptions' = IF subscriptionStatus(reqCompany, body) = 200
                        THEN subscriptions \cup {body[1]} ELSE subscriptions
  /\ UNCHANGED <<options, simNow, purchaseOrders, inventorySnapshots,
                 generatedMonthsByCommodity, pendingDeliveries, inventoryByCommodity,
                 nextUuid, interval, simListening, deliveries>>
  /\ UNCHANGED <<extVars, dbVars, faults, crashes, gui, histVars>>

\* GET /erp/:companyId/purchase-orders?since=...; `since` is <<>> when the
\* parameter is absent and <<timestamp>> otherwise.
GetPurchaseOrders(reqCompany, since) ==
  /\ simListening
  /\ response' =
       IF reqCompany # companyId
         THEN [route |-> "purchase-orders", status |-> 404, since |-> since, data |-> <<>>]
         ELSE [route |-> "purchase-orders", status |-> 200, since |-> since,
               data |-> IF since # <<>> THEN purchaseOrdersSince(since[1])
                        ELSE purchaseOrders]
  /\ UNCHANGED <<simVars, extVars, dbVars, faults, crashes, gui, histVars>>

\* GET /erp/:companyId/inventory?since=...
GetInventory(reqCompany, since) ==
  /\ simListening
  /\ response' =
       IF reqCompany # companyId
         THEN [route |-> "inventory", status |-> 404, since |-> since, data |-> <<>>]
         ELSE [route |-> "inventory", status |-> 200, since |-> since,
               data |-> IF since # <<>> THEN inventorySince(since[1])
                        ELSE inventorySnapshots]
  /\ UNCHANGED <<simVars, extVars, dbVars, faults, crashes, gui, histVars>>

\* stop() of the extractor, called while no handler is running:
\* clearInterval(pollHandle), app.close(), pool.end().
ExtStop ==
  /\ extRunning
  /\ \A t \in TaskIds : tasks[t].kind = "idle"
  /\ extRunning' = FALSE
  /\ pollHandle' = FALSE
  /\ UNCHANGED <<simVars, exitCode, lastSync, lastInventorySync, tasks,
                 dbVars, envVars, histVars>>

batchIds(t, phase) ==
  IF tasks[t].kind = "poll" /\ tasks[t].phase = phase
    THEN {tasks[t].batch[i].id : i \in DOMAIN tasks[t].batch} ELSE {}

\* The extractor process dies and a new one is constructed: handlers and
\* open transactions are gone, the watermarks are those of createExtractor.
ExtCrash ==
  /\ extRunning /\ crashes < MaxCrashes
  /\ crashes' = crashes + 1
  /\ extRunning' = FALSE
  /\ pollHandle' = FALSE
  /\ lastSync' = EpochDate
  /\ lastInventorySync' = EpochDate
  /\ tasks' = [t \in TaskIds |-> IdleTask]
  /\ interrupted' =
       [orders |-> interrupted.orders
                     \cup UNION {batchIds(t, "storeOrders") : t \in TaskIds},
        inventory |-> interrupted.inventory
                     \cup UNION {batchIds(t, "storeInventory") : t \in TaskIds}]
  /\ UNCHANGED <<simVars, exitCode, dbVars, faults, response, gui, webhookFailed, storeFailed, commits, raced, replies>>

----------------------------------------------------------------------------
(* The simulator alone *)

InitSim ==
  /\ \E cfg \in SimConfigs : SimConstructed(cfg)
  /\ ExtConstructed /\ DbEmpty /\ HistoryEmpty

NextSim == SimStart \/ Tick \/ SimStop

SpecSim == InitSim /\ [][NextSim]_vars

\* The simulator alone, with a consumption rate of 0.003 units a day: the
\* inventory takes values that are not whole hundredths.
InitRound ==
  /\ \E cfg \in { SimOptions(TwoCommodities, 7, 1, FALSE, 16, [sugar |-> 50000, flour |-> 400],
                             [sugar |-> 3, flour |-> 20], <<>>),
                  SimOptions(TwoCommodities, 30, 0, TRUE, 16, [sugar |-> 1000], [flour |-> 10], <<>>) } :
       SimConstructed(cfg)
  /\ ExtConstructed /\ DbEmpty /\ HistoryEmpty

SpecRound == InitRound /\ [][NextSim]_vars

----------------------------------------------------------------------------
(* Properties of the simulator *)

\* C10: with non-negative initial quantities and consumption rates, the
\* on-hand quantity of every commodity is >= 0 in every reachable simulator
\* state, and every recorded snapshot has onHand >= 0.
NonNegativeInventory ==
  /\ \A c \in DOMAIN inventoryByCommodity : inventoryByCommodity[c] >= 0
  /\ \A i \in DOMAIN inventorySnapshots : inventorySnapshots[i].onHand >= 0

\* A live tick has run, and consumption has emptied a commodity that started
\* with stock and is consumed at a positive rate.
NonNegativeInventoryWitness ==
  /\ simNow > NowMonthStart
  /\ \E c \in CommodityIds :
       /\ Lookup(options.consumptionPerDay, c, 0) > 0
       /\ Lookup(options.initialInventory, c, 1000000) > 0
       /\ inventoryByCommodity[c] = 0
       /\ \E i \in DOMAIN inventorySnapshots :
            /\ inventorySnapshots[i].commodityId = c
            /\ inventorySnapshots[i].asOf = simNow
            /\ inventorySnapshots[i].onHand = 0

----------------------------------------------------------------------------
(* Simulator and extractor together.  One poll (handler 1) and one webhook   *)
(* request (handler 2) are in flight at a time.                              *)

NoHistory ==
  SimOptions(OneCommodity, 40, 0, TRUE, 16, [sugar |-> 500], [sugar |-> 10], <<>>)
WithHistory ==
  SimOptions(OneCommodity, 40, 0, FALSE, 16, [sugar |-> 500], [sugar |-> 10], <<>>)

InitWith(configs) ==
  /\ \E cfg \in configs : SimConstructed(cfg)
  /\ ExtConstructed /\ DbEmpty /\ HistoryEmpty

HandlerStep(t) ==
  \/ PollOrdersResponse(t)
  \/ PollInventoryResponse(t)
  \/ TxRaw(t)
  \/ TxStruct(t)
  \/ TxCommit(t)

Handlers == \E t \in TaskIds : HandlerStep(t)

Webhooks ==
  \/ \E d \in deliveries : WebhookDeliver(d, 2)
  \/ \E d \in deliveries : WebhookFail(d)

\* The timers fire again and again, requests are answered and statements
\* end: every step that stays possible is eventually taken.
Fairness ==
  /\ WF_vars(SimStart) /\ WF_vars(Tick) /\ WF_vars(ExtStart)
  /\ WF_vars(PollStart(1))
  /\ \A t \in TaskIds : WF_vars(HandlerStep(t) \/ TxRawResume(t))
  /\ WF_vars(Webhooks)

ExtStartUnregistered == ExtStart /\ subscriptions' = subscriptions

\* Push and pull, with extractor crashes.
Init == InitWith({NoHistory})

Next ==
  \/ SimStart
  \/ Tick
  \/ ExtStart
  \/ ExtCrash
  \/ PollStart(1)
  \/ Handlers
  \/ \E t \in TaskIds : TxRawResume(t)
  \/ Webhooks

Spec == Init /\ [][Next]_vars

\* Push and pull without crashes or failures other than lost webhooks.
NextPush ==
  \/ SimStart
  \/ Tick
  \/ ExtStart
  \/ PollStart(1)
  \/ Handlers
  \/ \E t \in TaskIds : TxRawResume(t)
  \/ Webhooks

SpecPush == Init /\ [][NextPush]_vars /\ Fairness

\* Pull only (the webhook is never registered).
InitPull == InitWith({NoHistory, WithHistory})

NextPoll ==
  \/ SimStart
  \/ Tick
  \/ ExtStartUnregistered
  \/ PollStart(1)
  \/ Handlers

SpecPoll == InitPull /\ [][NextPoll]_vars /\ Fairness

\* Pull only, with extractor crashes.
NextPull ==
  \/ NextPoll
  \/ ExtCrash

SpecPull == InitPull /\ [][NextPull]_vars

\* Pull only, with failing simulator requests and failing transactions.
NextFault ==
  \/ NextPoll
  \/ \E t \in TaskIds : FetchFail(t)
  \/ \E t \in TaskIds : TxFail(t)

SpecFault == InitPull /\ [][NextFault]_vars /\ Fairness

\* Push and pull with either handler serving either, overlapping polls and
\* failing transactions; no crash.
\* The two handlers that run at once: each is a poll or a webhook delivery.
StoreHandlers == {1, 2}

NextStore ==
  \/ SimStart
  \/ Tick
  \/ ExtStart
  \/ \E t \in StoreHandlers : PollStart(t)
  \/ Handlers
  \/ \E t \in TaskIds : TxRawResume(t)
  \/ \E d \in deliveries : \E t \in StoreHandlers : WebhookDeliver(d, t)
  \/ \E t \in TaskIds : TxFail(t)

\* One live tick: the step is the whole explored span.
OneTick == SimOptions(OneCommodity, MaxLiveDays, 0, TRUE, 16, [sugar |-> 500], [sugar |-> 10], <<>>)

InitStore == InitWith({OneTick})

SpecStore == InitStore /\ [][NextStore]_vars

----------------------------------------------------------------------------
(* Properties of the pipeline: what is in the store *)

RawRowsOf(type, id) ==
  {r \in raw_erp_data : r.record_type = type /\ r.erp_record_id = id}

OrderRowsOf(id) == {r \in erp_purchase_orders : r.id = id}

SnapshotRowsOf(commodity, asOf) ==
  {r \in erp_inventory_snapshots : r.commodity_id = commodity /\ r.as_of = asOf}

\* A record is present in the store: its raw-log row and its structured row.
OrderPersisted(id) ==
  RawRowsOf(PurchaseOrderType, id) # {} /\ OrderRowsOf(id) # {}

SnapshotPersisted(id) ==
  RawRowsOf(InventoryType, id) # {} /\ SnapshotRowsOf(id[1], id[2]) # {}

RecordPersisted(type, id) ==
  IF type = PurchaseOrderType THEN OrderPersisted(id) ELSE SnapshotPersisted(id)

AllGeneratedPersisted ==
  /\ \A i \in DOMAIN purchaseOrders : OrderPersisted(purchaseOrders[i].id)
  /\ \A i \in DOMAIN inventorySnapshots : SnapshotPersisted(inventorySnapshots[i].id)

\* The transactions of the other handlers that are open on a record.
OpenOn(type, id) ==
  {t \in TaskIds : /\ Storing(t) /\ tasks[t].tx.state # "none"
                   /\ tasks[t].type = type /\ Current(t).id = id}

\* C1: an order id delivered any number of times, by webhook and by poll
\* batches, has exactly one raw-log row of type purchase_order and exactly one
\* structured row once a store of it has committed; the key (record type,
\* record id) is unique among raw-log rows, and the id among order rows, in
\* every reachable state.
ExactlyOnceOrders ==
  /\ \A r1, r2 \in raw_erp_data : RawKey(r1) = RawKey(r2) => r1 = r2
  /\ \A r1, r2 \in erp_purchase_orders : r1.id = r2.id => r1 = r2
  /\ \A c \in commits :
       c.type = PurchaseOrderType =>
         /\ Cardinality(RawRowsOf(PurchaseOrderType, c.id)) = 1
         /\ Cardinality(OrderRowsOf(c.id)) = 1

\* The same order was stored through the webhook and through a poll batch.
ExactlyOnceOrdersWitness ==
  \E a, b \in commits :
    /\ a.type = PurchaseOrderType /\ b.type = PurchaseOrderType /\ a.id = b.id
    /\ a.kind = "webhook" /\ b.kind = "poll"
    /\ Cardinality(RawRowsOf(PurchaseOrderType, a.id)) = 1
    /\ Cardinality(OrderRowsOf(a.id)) = 1

\* C2: two transactions storing the same order id at once never hold, between
\* them and the table, more than one raw-log row and one structured row of
\* that id, and whichever commits first, once both have ended and one has
\* committed there is exactly one of each.
ConcurrentStoresOneRow ==
  \A key \in raced :
    key[1] = PurchaseOrderType =>
      LET id == key[2]
          heldRaw == UNION {{r \in tasks[t].tx.raw : RawKey(r) = key} : t \in TaskIds}
          heldRows == UNION {{r \in tasks[t].tx.struct : StructRowKey(r) = key}
                              : t \in TaskIds}
      IN /\ Cardinality(RawRowsOf(PurchaseOrderType, id) \cup heldRaw) <= 1
         /\ Cardinality(OrderRowsOf(id) \cup heldRows) <= 1
         /\ (OpenOn(PurchaseOrderType, id) = {}
               /\ (\E c \in commits : c.type = PurchaseOrderType /\ c.id = id))
            => /\ Cardinality(RawRowsOf(PurchaseOrderType, id)) = 1
               /\ Cardinality(OrderRowsOf(id)) = 1

\* Two handlers worked on the same order at once and both committed.
ConcurrentStoresOneRowWitness ==
  \E key \in raced : \E a, b \in commits :
    /\ key[1] = PurchaseOrderType
    /\ a.type = key[1] /\ b.type = key[1] /\ a.id = key[2] /\ b.id = key[2]
    /\ a.task # b.task
    /\ OpenOn(key[1], key[2]) = {}
    /\ Cardinality(RawRowsOf(PurchaseOrderType, key[2])) = 1
    /\ Cardinality(OrderRowsOf(key[2])) = 1

----------------------------------------------------------------------------
(* Properties of the pipeline: push, pull and the watermarks *)

\* C3: an order whose webhook delivery failed (while deliveries of other
\* orders succeed, the simulator stays reachable, polls keep firing and
\* persistence does not fail) is eventually persisted by a later poll.
FailedWebhookOrderPersisted ==
  <>[](\A id \in webhookFailed : OrderPersisted(id))

\* The answer of the simulator to the order / inventory request of poll t
\* arrives in this step.
OrdersAnswered(t) ==
  /\ tasks[t].kind = "poll" /\ tasks[t].phase = "reqOrders"
  /\ tasks'[t].kind = "poll" /\ tasks'[t].phase # "reqOrders"

InventoryAnswered(t) ==
  /\ tasks[t].kind = "poll" /\ tasks[t].phase = "reqInventory"
  /\ tasks'[t].phase # "reqInventory" /\ crashes' = crashes /\ faults' = faults

FetchedOrderIds(t) ==
  {po.id : po \in Range(purchaseOrdersSince(tasks[t].since))}

FetchedSnapshotIds(t) ==
  {sn.id : sn \in Range(inventorySince(tasks[t].since))}

\* C4: after a crash between the fetch of a batch and its persistence, the
\* first poll after the restart fetches every record of the interrupted batch
\* (here: every one that is not in the store already).
RestartRefetchesInterrupted ==
  [][\A t \in TaskIds :
       /\ OrdersAnswered(t) =>
            \A id \in interrupted.orders :
              OrderPersisted(id) \/ id \in FetchedOrderIds(t)
       /\ InventoryAnswered(t) =>
            \A id \in interrupted.inventory :
              SnapshotPersisted(id) \/ id \in FetchedSnapshotIds(t)]_vars

TxFailed(t) ==
  Storing(t) /\ faults' = faults + 1 /\ tasks'[t] # tasks[t]

\* The records of the batch of handler t that were attempted without a failure
\* are in the store.
SiblingsPersisted ==
  \A t \in TaskIds :
    Storing(t) =>
      \A j \in 1..(tasks[t].i - 1) :
        j \notin tasks[t].failed => RecordPersisted(tasks[t].type, tasks[t].batch[j].id)

\* C6: when the transaction of one record of a batch fails, no raw-log row and
\* no structured row is added for it, the handler goes on with the next record
\* of the same batch, and the records whose own transaction succeeds are
\* persisted.
FailureIsolated ==
  /\ []SiblingsPersisted
  /\ [][\A t \in TaskIds :
          TxFailed(t) =>
            /\ raw_erp_data' = raw_erp_data
            /\ erp_purchase_orders' = erp_purchase_orders
            /\ erp_inventory_snapshots' = erp_inventory_snapshots
            /\ tasks'[t].tx = NoTx
            /\ tasks[t].i < Len(tasks[t].batch) =>
                 /\ tasks'[t].phase = tasks[t].phase
                 /\ tasks'[t].batch = tasks[t].batch
                 /\ tasks'[t].i = tasks[t].i + 1]_vars

\* The first record of a batch failed and is not in the store; the second
\* was stored after it.
FailureIsolatedWitness ==
  \E t \in TaskIds :
    /\ Storing(t) /\ tasks[t].i >= 3 /\ 1 \in tasks[t].failed
    /\ ~RecordPersisted(tasks[t].type, tasks[t].batch[1].id)
    /\ RecordPersisted(tasks[t].type, tasks[t].batch[2].id)

\* C7: a record of a poll batch whose persistence failed transiently is
\* fetched again by a later poll and persisted, without a restart.
FailedRecordPersistedLater ==
  <>[](\A key \in storeFailed : RecordPersisted(key[1], key[2]))

\* A request of poll t to the simulator fails in this step.
FetchFailed(t) ==
  /\ tasks[t].kind = "poll" /\ tasks[t].phase \in {"reqOrders", "reqInventory"}
  /\ faults' = faults + 1 /\ tasks'[t] # tasks[t]

\* The failing step itself writes nothing, leaves the watermarks alone, stays
\* inside pollLoop and leaves the poll timer set.
FailureCaught(t) ==
  /\ lastSync' = lastSync /\ lastInventorySync' = lastInventorySync
  /\ raw_erp_data' = raw_erp_data
  /\ erp_purchase_orders' = erp_purchase_orders
  /\ erp_inventory_snapshots' = erp_inventory_snapshots
  /\ tasks'[t] = IdleTask
  /\ extRunning' /\ pollHandle'

\* C8 as stated: when a request of a poll to the simulator fails, that poll
\* has written nothing and advanced neither watermark, the error stays inside
\* pollLoop and the timer stays set.
UpstreamFailureLeavesNoTrace ==
  [][\A t \in TaskIds :
       FetchFailed(t) => tasks[t].effects = {} /\ FailureCaught(t)]_vars

\* C8, amended: a failing order request leaves the store and both watermarks
\* as the poll found them; a failing inventory request leaves the snapshot
\* rows and the inventory watermark as the poll found them, while the orders
\* the same poll stored before stay and the order watermark stays advanced;
\* either way the error stays inside pollLoop and the timer stays set.
UpstreamFailureContained ==
  [][\A t \in TaskIds :
       FetchFailed(t) =>
         /\ tasks[t].phase = "reqOrders" => tasks[t].effects = {}
         /\ tasks[t].phase = "reqInventory" =>
              tasks[t].effects \cap {"inventoryRows", "lastInventorySync"} = {}
         /\ FailureCaught(t)]_vars

\* The inventory request of a poll failed after the poll had stored orders.
UpstreamFailureContainedWitness ==
  /\ faults = 1 /\ storeFailed = {}
  /\ extRunning /\ pollHandle /\ tasks[1] = IdleTask
  /\ erp_purchase_orders # {} /\ lastSync > EpochDate
  /\ inventorySnapshots # <<>>
  /\ erp_inventory_snapshots = {} /\ lastInventorySync = EpochDate

\* The transaction of the current record of handler t commits in this step.
TxCommitted(t) ==
  /\ Storing(t) /\ tasks[t].tx.state = "struct"
  /\ tasks'[t] # tasks[t] /\ faults' = faults /\ crashes' = crashes

\* C9: a snapshot stored any number of times has exactly one raw-log row of
\* type inventory_snapshot and exactly one structured row for its key (item,
\* as-of), and storing it again changes no table.
ExactlyOnceSnapshots ==
  /\ [](/\ \A r1, r2 \in erp_inventory_snapshots :
             StructRowKey(r1) = StructRowKey(r2) => r1 = r2
        /\ \A c \in commits :
             c.type = InventoryType =>
               /\ Cardinality(RawRowsOf(InventoryType, c.id)) = 1
               /\ Cardinality(SnapshotRowsOf(c.id[1], c.id[2])) = 1)
  /\ [][\A t \in TaskIds :
          (/\ TxCommitted(t) /\ tasks[t].type = InventoryType
           /\ \E c \in commits : c.type = InventoryType /\ c.id = Current(t).id)
          => /\ raw_erp_data' = raw_erp_data
             /\ erp_inventory_snapshots' = erp_inventory_snapshots]_vars

\* The same snapshot was stored before a crash and again after the restart.
ExactlyOnceSnapshotsWitness ==
  \E a, b \in commits :
    /\ a.type = InventoryType /\ b.type = InventoryType /\ a.id = b.id
    /\ a.run # b.run
    /\ Cardinality(RawRowsOf(InventoryType, a.id)) = 1
    /\ Cardinality(SnapshotRowsOf(a.id[1], a.id[2])) = 1

----------------------------------------------------------------------------
(* The simulator and its webhook subscribers *)

WithStatic ==
  SimOptions(OneCommodity, 40, 0, FALSE, 16, [sugar |-> 500], [sugar |-> 10], <<StaticOrder(1, MonthStartTable[16])>>)

\* The order the embedding program pushes, once, after start(), with or
\* without notification.
PushedOrder == StaticOrder(2, MonthStartTable[16])

PushOnce(notify) ==
  /\ simListening /\ PushedOrder \notin Range(purchaseOrders)
  /\ PushOrders(<<PushedOrder>>, notify)

InitNotify == InitWith({WithStatic})

NextNotify ==
  \/ SimStart
  \/ Tick
  \/ \E u \in SinkUrls : Subscribe(u)
  \/ \E notify \in BOOLEAN : PushOnce(notify)
  \/ \E d \in deliveries : WebhookOk(d)
  \/ \E d \in deliveries : WebhookFail(d)

\* The timer fires however the subscribers behave; no delivery is ever
\* guaranteed to complete.
SpecNotify == InitNotify /\ [][NextNotify]_vars /\ WF_vars(SimStart) /\ WF_vars(Tick)

----------------------------------------------------------------------------
(* The simulator and the clients of its routes *)

\* Tenants a client may name: the simulator's own and another one.
Companies == {companyId, "other"}

\* Values of `since` a client sends: none, the epoch, the start of the current
\* month, and the creation timestamp of the first order of the list.
QuerySinces ==
  {<<>>, <<EpochDate>>, <<NowMonthStart>>}
    \cup (IF purchaseOrders = <<>> THEN {} ELSE {<<purchaseOrders[1].createdAt>>})

QueryConfigs ==
  { SimOptions(TwoCommodities, 7, 0, TRUE, 16, [sugar |-> 300, flour |-> 50], [sugar |-> 30, flour |-> 10], <<>>),
    SimOptions(TwoCommodities, 10, 1, FALSE, 16, [sugar |-> 600, flour |-> 0], [sugar |-> 10, flour |-> 20], <<>>) }

InitQuery == InitWith(QueryConfigs)

NextQuery ==
  \/ SimStart
  \/ Tick
  \/ Subscribe("sinkA")
  \/ \E c \in Companies : \E since \in QuerySinces : GetPurchaseOrders(c, since)
  \/ \E c \in Companies : \E since \in QuerySinces : GetInventory(c, since)

SpecQuery == InitQuery /\ [][NextQuery]_vars

\* The simulator and clients whose requests it rejects or accepts.
NextReject ==
  \/ SimStart
  \/ Tick
  \/ \E c \in Companies : \E body \in {<<>>, <<"">>, <<"sinkA">>, <<"sinkB">>} :
       PostSubscription(c, body)
  \/ \E c \in Companies : \E since \in {<<>>, <<EpochDate>>} : GetPurchaseOrders(c, since)
  \/ \E c \in Companies : \E since \in {<<>>, <<EpochDate>>} : GetInventory(c, since)

SpecReject == InitPull /\ [][NextReject]_vars

----------------------------------------------------------------------------
(* Start-up with a database that may be unreachable *)

NextStartup ==
  \/ NextPush
  \/ ExtStartFails

SpecStartup == Init /\ [][NextStartup]_vars

----------------------------------------------------------------------------
(* Pull only, with both services stopped at some point *)

NextStop ==
  \/ NextPoll
  \/ SimStop
  \/ ExtStop

SpecStop == InitPull /\ [][NextStop]_vars

----------------------------------------------------------------------------
(* Push only: the poll timer never fires within the explored behaviours *)

\* The steps of one upsert transaction.
StoreStep(t) == TxRaw(t) \/ TxStruct(t) \/ TxCommit(t)

\* The embedding program pushes the same order with notification, at most twice.
PushAgain ==
  /\ simListening
  /\ Cardinality({i \in DOMAIN purchaseOrders : purchaseOrders[i] = PushedOrder}) < 2
  /\ PushOrders(<<PushedOrder>>, TRUE)

\* The embedding program pushes, with notification, an order that has the id
\* of an order pushed before and another quantity and status.
PushAltered ==
  LET altered == [PushedOrder EXCEPT !.quantity = 5, !.status = "draft"]
  IN /\ simListening
     /\ PushedOrder \in Range(purchaseOrders) /\ altered \notin Range(purchaseOrders)
     /\ PushOrders(<<altered>>, TRUE)

NextWebhook ==
  \/ SimStart
  \/ Tick
  \/ ExtStart
  \/ PushAgain
  \/ \E t \in TaskIds : StoreStep(t)
  \/ \E t \in TaskIds : TxRawResume(t)
  \/ \E d \in deliveries : \E t \in StoreHandlers : WebhookDeliver(d, t)
  \/ \E d \in deliveries : WebhookFail(d)
  \/ \E t \in TaskIds : TxFail(t)

\* Timers fire, statements end, and every POST is eventually received or fails.
FairnessWebhook ==
  /\ WF_vars(SimStart) /\ WF_vars(Tick) /\ WF_vars(ExtStart)
  /\ \A t \in TaskIds : WF_vars(StoreStep(t) \/ TxRawResume(t))
  /\ WF_vars(\/ \E d \in deliveries : \E t \in StoreHandlers : WebhookDeliver(d, t)
             \/ \E d \in deliveries : WebhookFail(d))

SpecWebhook == InitStore /\ [][NextWebhook]_vars /\ FairnessWebhook

\* Push only, with an order delivered again under the same id and altered.
NextDuplicate == NextWebhook \/ PushAltered

SpecDuplicate == InitStore /\ [][NextDuplicate]_vars

----------------------------------------------------------------------------
(* Properties of the simulator: orders, deliveries and snapshots *)

\* The lifecycle the specification names, in order.
LifecycleStatuses == <<"in_approval", "executed", "supplied">>

\* C11: every status observed for an order, through the query surface (the
\* order list) or in a webhook POST, is one of in_approval, executed,
\* supplied.  (The code never changes the status of an order it has created,
\* so the order of the observations is not at issue.)
StatusWithinLifecycle ==
  /\ \A i \in DOMAIN purchaseOrders : purchaseOrders[i].status \in Range(LifecycleStatuses)
  /\ \A d \in deliveries : d.po.status \in Range(LifecycleStatuses)

\* A live step: the tick callback has advanced the simulation clock.
LiveStep == interval /\ simNow' > simNow

\* The orders a step has added to the order list.
CreatedInStep == Range(purchaseOrders') \ Range(purchaseOrders)

\* On-hand below the daily rate: below rate x safety-stock days for every
\* safety-stock window of at least one day.
BelowSafetyStock(c) == inventoryByCommodity[c] < Lookup(options.consumptionPerDay, c, 0)

\* C12: a live step that starts with an item's on-hand quantity below its
\* daily consumption rate times the safety-stock days creates a purchase
\* order for that item within that step.
SafetyStockTrigger ==
  [][LiveStep => \A c \in DOMAIN inventoryByCommodity :
                   BelowSafetyStock(c) => \E po \in CreatedInStep : po.commodityId = c]_vars

\* The orders the generator created (their ids come from randomUUID()).
GeneratedOrders == {po \in Range(purchaseOrders) : po.id[1] = "po"}

PendingIds == {pendingDeliveries[i].purchaseOrderId : i \in DOMAIN pendingDeliveries}

\* The pending delivery maybeGenerateMonthlyOrder pushes for an order.
DeliveryOf(po) ==
  [commodityId |-> po.commodityId, quantity |-> po.quantity,
   deliveryDate |-> po.deliveryDate, purchaseOrderId |-> po.id]

\* The generated orders of item c whose delivery is no longer pending.
AppliedOrders(c) == {po \in GeneratedOrders : po.commodityId = c /\ po.id \notin PendingIds}

RECURSIVE SumQuantity(_)
SumQuantity(S) ==
  IF S = {} THEN 0
  ELSE LET x == CHOOSE y \in S : TRUE IN x.quantity + SumQuantity(S \ {x})

\* End of the last step taken, bootstrap or live: the as-of of the newest snapshot.
LastStepEnd == inventorySnapshots[Len(inventorySnapshots)].asOf

\* Every pending delivery is the delivery of exactly one order, and no order
\* has two pending deliveries.
PendingBelongsToOneOrder ==
  /\ \A i \in DOMAIN pendingDeliveries :
       /\ Cardinality({j \in DOMAIN purchaseOrders :
                         purchaseOrders[j].id = pendingDeliveries[i].purchaseOrderId}) = 1
       /\ \E po \in GeneratedOrders : pendingDeliveries[i] = DeliveryOf(po)
  /\ \A i, j \in DOMAIN pendingDeliveries :
       pendingDeliveries[i].purchaseOrderId = pendingDeliveries[j].purchaseOrderId => i = j

\* On hand never exceeds the starting quantity plus one copy of every applied
\* delivery, and equals it for an item that is not consumed.
AppliedAtMostOnce ==
  \A c \in DOMAIN inventoryByCommodity :
    LET ceiling == initialInventoryMap[c] + SumQuantity(AppliedOrders(c))
    IN /\ inventoryByCommodity[c] <= ceiling
       /\ Lookup(options.consumptionPerDay, c, 0) = 0 => inventoryByCommodity[c] = ceiling

\* A delivery is applied only by a step that ends at or after its timestamp,
\* and no delivery stays pending past the clock.
AppliedNotEarly ==
  /\ \A po \in GeneratedOrders :
       po.id \notin PendingIds => inventorySnapshots # <<>> /\ po.deliveryDate <= LastStepEnd
  /\ \A i \in DOMAIN pendingDeliveries : pendingDeliveries[i].deliveryDate > simNow

\* A live step applies exactly the deliveries due by its end and removes them.
LiveStepDelivers ==
  LET known == Range(pendingDeliveries) \cup {DeliveryOf(po) : po \in CreatedInStep}
      due == {d \in known : d.deliveryDate <= simNow'}
  IN /\ Range(pendingDeliveries') = known \ due
     /\ \A c \in DOMAIN inventoryByCommodity :
          inventoryByCommodity'[c] =
            Max(0, inventoryByCommodity[c]
                     - Lookup(options.consumptionPerDay, c, 0) * (simNow' - simNow))
            + SumQuantity({d \in due : d.commodityId = c})

\* C13: each pending delivery belongs to exactly one generated order and is
\* added to its item's on-hand quantity at most once, never by a step that
\* ends before its delivery timestamp; a live step applies and removes the
\* deliveries whose timestamp is at or before the step's end.
PendingDeliveryAppliedOnce ==
  /\ [](PendingBelongsToOneOrder /\ AppliedAtMostOnce /\ AppliedNotEarly)
  /\ [][LiveStep => LiveStepDelivers]_vars

\* A delivery with a positive quantity was applied by a live step.
PendingDeliveryAppliedOnceWitness ==
  /\ interval
  /\ \E po \in GeneratedOrders :
       /\ po.id \notin PendingIds
       /\ po.quantity > 0
       /\ po.deliveryDate > NowMonthStart + options.stepDays
  /\ pendingDeliveries # <<>>

\* C14: the simulator never holds two inventory snapshots with the same
\* (tenant, item, as-of), across the bootstrap backfill and all live ticks.
SnapshotKeysUnique ==
  \A i, j \in DOMAIN inventorySnapshots :
    (/\ inventorySnapshots[i].commodityId = inventorySnapshots[j].commodityId
     /\ inventorySnapshots[i].asOf = inventorySnapshots[j].asOf) => i = j

\* The step in which start() runs, and the orders a step appends to the list.
StartStep == ~simListening /\ simListening'
AppendedInStep ==
  {purchaseOrders'[i] : i \in (Len(purchaseOrders) + 1)..Len(purchaseOrders')}

\* C15: a webhook POST is issued only in the step that appends its order to
\* the list, and never by start(): no order of the bootstrap backfill and no
\* static start-up order is ever sent to a subscriber.
NoWebhookForBackfill ==
  [][\A d \in deliveries' \ deliveries : ~StartStep /\ d.po \in AppendedInStep]_vars

\* start() has run, backfill and static orders are in the list, subscribers
\* are registered, and no POST was issued.
NoWebhookForBackfillWitness ==
  /\ simListening /\ simNow = NowMonthStart
  /\ subscriptions = SinkUrls
  /\ GeneratedOrders # {}
  /\ \E po \in Range(purchaseOrders) : po \in Range(options.staticOrders)
  /\ deliveries = {} /\ webhookFailed = {}

\* The simulator's own state apart from the POSTs in flight.
simCore == <<options, simNow, purchaseOrders, inventorySnapshots, subscriptions,
             generatedMonthsByCommodity, pendingDeliveries, inventoryByCommodity,
             nextUuid, interval, simListening>>

\* A step in which a webhook POST fails.
FailStep == webhookFailed' # webhookFailed

\* C16: a live tick issues, for each order it creates, one POST to every
\* callback address registered at that moment and leaves the earlier POSTs
\* alone; a failed delivery ends that one POST only, changes nothing in the
\* simulator, and no POST is ever issued again for an order already listed.
FanOutIsolation ==
  [][/\ LiveStep =>
          /\ deliveries \subseteq deliveries'
          /\ deliveries' \ deliveries =
               {[po |-> po, url |-> u] : po \in AppendedInStep, u \in subscriptions}
     /\ FailStep =>
          /\ \E d \in deliveries : deliveries' = deliveries \ {d}
          /\ UNCHANGED simCore
     /\ \A d \in deliveries' \ deliveries : d.po \notin Range(purchaseOrders)]_vars

\* The POST of a live order to one sink has failed while the POST of the same
\* order to the other sink is still in flight.
FanOutIsolationWitness ==
  \E d \in deliveries :
    /\ d.po \in GeneratedOrders
    /\ d.po.id \in webhookFailed
    /\ subscriptions = SinkUrls

\* A step in which a webhook delivery ends, with whatever outcome.
OutcomeStep == deliveries' \subseteq deliveries /\ deliveries' # deliveries

\* C17: the outcome of a webhook delivery changes nothing in the simulator,
\* and the clock reaches the end of the explored horizon even if deliveries
\* stay in flight forever: a tick never waits for them.
NoBackpressure ==
  /\ [][OutcomeStep => UNCHANGED simCore]_vars
  /\ <>(simNow - NowMonthStart >= MaxLiveDays)

\* A tick has run while the POST of an order created by an earlier tick was
\* still in flight.
NoBackpressureWitness ==
  /\ simNow - NowMonthStart >= MaxLiveDays
  /\ \E d \in deliveries :
       d.po \in GeneratedOrders /\ monthKey(d.po.createdAt) # monthKey(simNow)

----------------------------------------------------------------------------
(* Properties of the push channel *)

HandlerEnds(t) == tasks[t].kind = "webhook" /\ tasks'[t].kind # "webhook"

\* C19: the webhook route answers every order payload it receives, and always
\* with 202: when the order is new, when it is already stored, and when its
\* store transaction failed.
WebhookAlwaysAccepted ==
  /\ [](\A r \in replies : r.code = 202)
  /\ [][\A t \in StoreHandlers :
          HandlerEnds(t) =>
            \E r \in replies' : r.id = Current(t).id /\ r.code = 202]_vars
  /\ \A t \in StoreHandlers : [](tasks[t].kind = "webhook" => <>(tasks[t].kind = "idle"))

\* Three payloads were answered 202: a new order, a duplicate of a stored
\* order, and an order whose transaction failed.
WebhookAlwaysAcceptedWitness ==
  /\ \E r \in replies : r.stored /\ r.wrote /\ r.code = 202
  /\ \E r \in replies : r.stored /\ ~r.wrote /\ r.code = 202 /\ OrderPersisted(r.id)
  /\ \E r \in replies : ~r.stored /\ r.code = 202 /\ ~OrderPersisted(r.id)

\* C20: when the registration of the callback fails at start-up, start()
\* still completes with the poll timer set, and polls keep running.
RegistrationFailureNonFatal ==
  /\ [][(~extRunning /\ extRunning' /\ ExtractorUrl \notin subscriptions')
          => pollHandle']_vars
  /\ [](extRunning /\ ExtractorUrl \notin subscriptions => <>(tasks[1].kind = "poll"))

\* The extractor runs unregistered next to a listening simulator, and a poll
\* has stored a record.
RegistrationFailureNonFatalWitness ==
  /\ extRunning /\ pollHandle /\ simListening
  /\ ExtractorUrl \notin subscriptions
  /\ \E c \in commits : c.kind = "poll"

----------------------------------------------------------------------------
(* Properties of start-up, the simulator's data and its queries *)

\* C21: a start-up that finds the database unreachable ends the process with
\* a non-zero exit code, and the endpoint does not listen, the webhook is not
\* registered and the poll timer is not set.
FatalStartupFailure ==
  /\ [](exitCode # 0 =>
          /\ ~extRunning /\ ~pollHandle
          /\ \A t \in TaskIds : tasks[t].kind = "idle")
  /\ [][(exitCode = 0 /\ exitCode' # 0) =>
          /\ ~extRunning' /\ ~pollHandle'
          /\ subscriptions' = subscriptions]_vars

\* The extractor has exited non-zero next to a listening simulator that does
\* not know its callback.
FatalStartupFailureWitness ==
  /\ exitCode # 0 /\ simListening
  /\ ExtractorUrl \notin subscriptions
  /\ ~extRunning /\ ~pollHandle

\* C22: every order created by the generator has a delivery timestamp
\* strictly later than its creation timestamp.
DeliveryAfterCreation ==
  \A po \in GeneratedOrders : po.deliveryDate > po.createdAt

\* The list holds an order of the backfill and an order created by a live tick.
DeliveryAfterCreationWitness ==
  /\ \E po \in GeneratedOrders : po.createdAt < NowMonthStart
  /\ \E po \in GeneratedOrders : po.createdAt > NowMonthStart + 28

\* An order without its status.
WithoutStatus(po) == [f \in DOMAIN po \ {"status"} |-> po[f]]

\* C23: the order list only grows, and an order in it keeps every field other
\* than its status, whatever ticks, queries and subscription calls happen.
OrdersAppendOnly ==
  [][/\ Len(purchaseOrders') >= Len(purchaseOrders)
     /\ \A i \in DOMAIN purchaseOrders :
          WithoutStatus(purchaseOrders'[i]) = WithoutStatus(purchaseOrders[i])]_vars

\* Orders of the backfill and of live ticks are listed, a subscriber is
\* registered and a query has been answered.
OrdersAppendOnlyWitness ==
  /\ Len(purchaseOrders) >= 3
  /\ \E i \in DOMAIN purchaseOrders : purchaseOrders[i].createdAt > NowMonthStart + 28
  /\ "sinkA" \in subscriptions
  /\ response.status = 200 /\ response.route = "purchase-orders"
  /\ Len(response.data) < Len(purchaseOrders)

\* A step in which a query is answered (with an answer that differs from the
\* one before).
QueryStep == response' # response

\* `data` holds exactly the entries of `list` that a query with `since` asks
\* for: all of them, or those stamped strictly later.
ExactlySince(data, list, since, stamp(_)) ==
  LET wanted == {i \in DOMAIN list : since = <<>> \/ stamp(list[i]) > since[1]}
  IN /\ Len(data) = Cardinality(wanted)
     /\ Range(data) = {list[i] : i \in wanted}

\* C24: an order query answers exactly the orders created strictly after
\* since, an inventory query exactly the snapshots with a later as-of, a
\* query without since all of them; a query for another tenant answers 404
\* without data; no query changes the simulator.
IncrementalQuery ==
  [][QueryStep =>
       /\ UNCHANGED <<simCore, deliveries>>
       /\ response'.status \in {200, 404}
       /\ response'.status = 404 => response'.data = <<>>
       /\ (response'.status = 200 /\ response'.route = "purchase-orders") =>
            ExactlySince(response'.data, purchaseOrders, response'.since,
                         LAMBDA po : po.createdAt)
       /\ (response'.status = 200 /\ response'.route = "inventory") =>
            ExactlySince(response'.data, inventorySnapshots, response'.since,
                         LAMBDA sn : sn.asOf)]_vars

\* A query with since equal to the creation timestamp of the first order was
\* answered with some of the orders, the first one not among them.
IncrementalQueryWitness ==
  /\ response.status = 200 /\ response.route = "purchase-orders"
  /\ purchaseOrders # <<>> /\ response.since = <<purchaseOrders[1].createdAt>>
  /\ response.data # <<>>
  /\ purchaseOrders[1] \notin Range(response.data)

\* A poll is started in this step.
PollStarts == \E t \in TaskIds : tasks[t].kind # "poll" /\ tasks'[t].kind = "poll"

OrderContent(po) ==
  [commodityId |-> po.commodityId, quantity |-> po.quantity,
   pricePerUnit |-> po.pricePerUnit, createdAt |-> po.createdAt,
   deliveryDate |-> po.deliveryDate]

\* The backfill of an instance that starts in the current state and whose
\* calls of Math.random() return rnd.
BackfillWith(rnd) ==
  LET b == bootstrapHistory(options.historyMonths, NowMonthStart, rnd)
  IN [orders |-> [i \in 1..Len(b.purchaseOrders) |-> OrderContent(b.purchaseOrders[i])],
      snapshots |-> b.snapshots]

\* C26: the backfill that a start produces is the backfill of every instance
\* started from the same configuration at the same instant: same orders
\* (items, quantities, prices, timestamps), same snapshots.
DeterministicBackfill ==
  [][(StartStep /\ ~options.disableHistory) =>
       \A rnd \in HistoryDraws :
         /\ BackfillWith(rnd).orders =
              [i \in 1..Len(purchaseOrders') |-> OrderContent(purchaseOrders'[i])]
         /\ BackfillWith(rnd).snapshots = inventorySnapshots']_vars

----------------------------------------------------------------------------
(* The GUI: groupCommodities and filterByDuration over the orders it shows.
   Timestamps are in hours, prices in cents. *)

MaxGuiOrders == 3       \* orders in the list given to the GUI's functions

HoursPerDay == 24

GuiNow == 200 * HoursPerDay

GuiOrder(id, commodity, quantity, price, createdAt) ==
  [id |-> id, commodityId |-> commodity, commodityName |-> commodity,
   quantity |-> quantity, pricePerUnit |-> price, unit |-> "lb",
   currency |-> currency, createdAt |-> createdAt]

\* One day old, exactly 7 days old, an hour more than 7 days, exactly 90 days,
\* 200 days.
GuiOrderPool ==
  { GuiOrder("1", "sugar", 10, 120, GuiNow - HoursPerDay),
    GuiOrder("2", "flour", 25, 50, GuiNow - 7 * HoursPerDay),
    GuiOrder("3", "sugar", 5, 80, GuiNow - 7 * HoursPerDay - 1),
    GuiOrder("4", "flour", 25, 50, GuiNow - 90 * HoursPerDay),
    GuiOrder("5", "rice", 40, 30, 0) }

GuiDurations == {0, 7, 90}

GuiOrderLists == UNION {[1..n -> GuiOrderPool] : n \in 0..MaxGuiOrders}

\* The entry of a commodity when its first order is met.
newEntry(po) ==
  [id |-> po.commodityId, name |-> po.commodityName, orders |-> 0, totalUnits |-> 0,
   totalCost |-> 0, unit |-> po.unit, currency |-> po.currency, prices |-> <<>>]

\* Variant of the accumulation that keeps the units of the last order only.
addOrderOverwriting(entry, po) ==
  [entry EXCEPT !.orders = @ + 1, !.totalUnits = po.quantity,
                !.totalCost = @ + po.pricePerUnit * po.quantity,
                !.prices = Append(@, po.pricePerUnit)]

\* forEach body: count the order, add its units and cost, keep its price.
addOrder(entry, po) ==
  [entry EXCEPT !.orders = @ + 1, !.totalUnits = @ + po.quantity,
                !.totalCost = @ + po.pricePerUnit * po.quantity,
                !.prices = Append(@, po.pricePerUnit)]

\* The Map after the forEach over the first n orders: a sequence of entries
\* in insertion order.
RECURSIVE groupEntries(_, _)
groupEntries(orders, n) ==
  IF n = 0 THEN <<>>
  ELSE LET map == groupEntries(orders, n - 1)
           po == orders[n]
           at == {i \in 1..Len(map) : map[i].id = po.commodityId}
       IN IF at = {} THEN Append(map, addOrder(newEntry(po), po))
          ELSE [i \in 1..Len(map) |-> IF i \in at THEN addOrder(map[i], po) ELSE map[i]]

SeqMin(ps) == CHOOSE p \in Range(ps) : \A q \in Range(ps) : p <= q
SeqMax(ps) == CHOOSE p \in Range(ps) : \A q \in Range(ps) : p >= q

RECURSIVE SeqSum(_)
SeqSum(ps) == IF ps = <<>> THEN 0 ELSE ps[1] + SeqSum(Tail(ps))

\* The summary of an entry; avgPrice is kept as the exact quotient sum / count.
toSummary(entry) ==
  [id |-> entry.id, name |-> entry.name, totalOrders |-> entry.orders,
   totalUnits |-> entry.totalUnits, totalCost |-> entry.totalCost,
   unit |-> entry.unit, currency |-> entry.currency,
   minPrice |-> IF Len(entry.prices) > 0 THEN SeqMin(entry.prices) ELSE 0,
   maxPrice |-> IF Len(entry.prices) > 0 THEN SeqMax(entry.prices) ELSE 0,
   avgPrice |-> IF Len(entry.prices) > 0
                  THEN [sum |-> SeqSum(entry.prices), count |-> Len(entry.prices)]
                  ELSE [sum |-> 0, count |-> 1]]

\* sort((a, b) => b.totalCost - a.totalCost): stable, largest cost first.
RECURSIVE InsertByCost(_, _)
InsertByCost(sorted, e) ==
  IF sorted = <<>> THEN <<e>>
  ELSE IF sorted[Len(sorted)].totalCost >= e.totalCost THEN Append(sorted, e)
  ELSE Append(InsertByCost(SubSeq(sorted, 1, Len(sorted) - 1), e), sorted[Len(sorted)])

RECURSIVE SortByCost(_)
SortByCost(es) ==
  IF es = <<>> THEN <<>>
  ELSE InsertByCost(SortByCost(SubSeq(es, 1, Len(es) - 1)), es[Len(es)])

groupCommodities(orders) ==
  LET map == groupEntries(orders, Len(orders))
  IN SortByCost([i \in 1..Len(map) |-> toSummary(map[i])])

\* Variant of the filter with a strict comparison against the cutoff.
keptByDurationStrict(po, cutoff) == po.createdAt > cutoff

\* filter predicate: new Date(po.createdAt).getTime() >= cutoff
keptByDuration(po, cutoff) == po.createdAt >= cutoff

filterByDuration(orders, days, now) ==
  IF days = 0 THEN orders
  ELSE LET cutoff == now - days * HoursPerDay
           kept(po) == keptByDuration(po, cutoff)
       IN SelectSeq(orders, kept)

\* The summaries of the loaded orders are computed.
GuiGroup ==
  /\ ~gui.grouped
  /\ gui' = [gui EXCEPT !.summaries = groupCommodities(gui.orders), !.grouped = TRUE]
  /\ UNCHANGED <<simVars, extVars, dbVars, faults, crashes, response, histVars>>

\* The duration filter is applied to the loaded orders.
GuiFilter ==
  /\ ~gui.filteredDone
  /\ gui' = [gui EXCEPT !.filtered = filterByDuration(gui.orders, gui.days, gui.now),
                        !.filteredDone = TRUE]
  /\ UNCHANGED <<simVars, extVars, dbVars, faults, crashes, response, histVars>>

InitGui ==
  /\ SimConstructed(NoHistory) /\ ExtConstructed /\ DbEmpty /\ TraceEmpty
  /\ \E os \in GuiOrderLists, d \in GuiDurations :
       gui = [GuiClosed EXCEPT !.orders = os, !.days = d, !.now = GuiNow]

NextGui == GuiGroup \/ GuiFilter

SpecGui == InitGui /\ [][NextGui]_vars

----------------------------------------------------------------------------
(* Properties of the GUI's functions *)

\* Indices of the loaded orders of a commodity.
OrdersOf(c) == {i \in 1..Len(gui.orders) : gui.orders[i].commodityId = c}

RECURSIVE UnitsOver(_)
UnitsOver(is) ==
  IF is = {} THEN 0
  ELSE LET i == CHOOSE k \in is : TRUE
       IN gui.orders[i].quantity + UnitsOver(is \ {i})

\* C27: groupCommodities returns exactly one summary per distinct commodityId
\* of its input; the summary's totalOrders is the number of input orders of
\* that commodity and its totalUnits the sum of their quantities.
GroupCommoditiesTotals ==
  gui.grouped =>
    LET ids == {gui.orders[i].commodityId : i \in 1..Len(gui.orders)}
    IN /\ {gui.summaries[k].id : k \in 1..Len(gui.summaries)} = ids
       /\ Len(gui.summaries) = Cardinality(ids)
       /\ \A k \in 1..Len(gui.summaries) :
            /\ gui.summaries[k].totalOrders = Cardinality(OrdersOf(gui.summaries[k].id))
            /\ gui.summaries[k].totalUnits = UnitsOver(OrdersOf(gui.summaries[k].id))

\* Three orders of two commodities have been grouped into two summaries.
GroupCommoditiesTotalsWitness ==
  /\ gui.grouped /\ Len(gui.orders) = 3 /\ Len(gui.summaries) = 2
  /\ \E k \in 1..2 : gui.summaries[k].totalOrders = 2 /\ gui.summaries[k].totalUnits = 15

\* Indices of the loaded orders not older than the selected number of days.
RecentIndices ==
  {i \in 1..Len(gui.orders) :
     gui.days = 0 \/ gui.now - gui.orders[i].createdAt <= gui.days * HoursPerDay}

\* C28: filterByDuration with days > 0 returns exactly the input orders, in
\* input order, that were created no more than days days before now; with
\* days = 0 it returns all input orders.
FilterByDurationExact ==
  gui.filteredDone =>
    /\ Len(gui.filtered) = Cardinality(RecentIndices)
    /\ \E f \in [1..Len(gui.filtered) -> RecentIndices] :
         /\ \A a, b \in 1..Len(gui.filtered) : a < b => f[a] < f[b]
         /\ \A a \in 1..Len(gui.filtered) : gui.filtered[a] = gui.orders[f[a]]
    /\ gui.days = 0 => gui.filtered = gui.orders

\* A 7-day filter kept the order that is exactly 7 days old and dropped an
\* older one.
FilterByDurationExactWitness ==
  /\ gui.filteredDone /\ gui.days = 7
  /\ \E a \in 1..Len(gui.filtered) : gui.now - gui.filtered[a].createdAt = 7 * HoursPerDay
  /\ Len(gui.filtered) < Len(gui.orders)

----------------------------------------------------------------------------
(* Properties of the watermarks *)

\* The largest time stamp of a non-empty batch.
LargestStamp(type, batch) ==
  CHOOSE s \in {stampOf(type, batch[k]) : k \in 1..Len(batch)} :
    \A k \in 1..Len(batch) : stampOf(type, batch[k]) <= s

\* After this step a persistence attempt has ended for record k of the batch
\* of handler t: its transaction was committed or rolled back.
AttemptedAfter(t, k) ==
  LET rec == tasks[t].batch[k]
  IN \/ \E c \in commits' : c.type = tasks[t].type /\ c.id = rec.id /\ c.task = t
     \/ <<tasks[t].type, rec.id>> \in storeFailed'
     \/ \E r \in replies' : r.id = rec.id

\* A change of a watermark in this step is made by a handler that ends a
\* batch of that type, every record of which has been attempted, and the new
\* value is the larger of the old value and the batch's largest time stamp.
ChangedByEndedBatch(type, old, new) ==
  old # new =>
    \E t \in TaskIds :
      /\ Storing(t) /\ tasks[t].type = type /\ tasks'[t].phase \notin {"storeOrders", "storeInventory"}
      /\ \A k \in 1..Len(tasks[t].batch) : AttemptedAfter(t, k)
      /\ new = Max(old, LargestStamp(type, tasks[t].batch))

\* C29: a watermark changes only when a batch ends, after a persistence
\* attempt for each of its records, to the maximum of its old value and the
\* largest time stamp of the batch (createdAt for orders, asOf for
\* snapshots); an empty batch leaves it unchanged.
WatermarkAdvanceOrdering ==
  /\ [][/\ ChangedByEndedBatch(PurchaseOrderType, lastSync, lastSync')
        /\ ChangedByEndedBatch(InventoryType, lastInventorySync, lastInventorySync')]_vars
  /\ [](/\ advanceWatermark(PurchaseOrderType, <<>>, lastSync) = lastSync
        /\ advanceWatermark(InventoryType, <<>>, lastInventorySync) = lastInventorySync)

\* Both watermarks have advanced, one of them after a batch of two snapshots,
\* and a record's attempt had failed.
WatermarkAdvanceOrderingWitness ==
  /\ lastSync > EpochDate /\ lastInventorySync > EpochDate
  /\ storeFailed # {}
  /\ \E c1, c2 \in commits :
       /\ c1.type = InventoryType /\ c2.type = InventoryType
       /\ c1.id # c2.id /\ c1.task = c2.task

\* C30: the order watermark is changed by the pull channel only: every
\* change of lastSync is made by a poll that ends its batch of orders, and a
\* webhook handler leaves lastSync as it was.
OrderWatermarkFromPullOnly ==
  [][/\ lastSync' # lastSync =>
          \E t \in TaskIds : tasks[t].kind = "poll" /\ tasks[t].phase = "storeOrders"
                             /\ tasks'[t].phase # "storeOrders"
     /\ \A t \in TaskIds :
          (tasks[t].kind = "webhook" /\ tasks'[t].kind = "idle") => lastSync' = lastSync]_vars

----------------------------------------------------------------------------
(* Properties of the store: duplicates, back-references, consistency *)

\* The transaction of handler t on an order whose id already has a committed
\* structured row ends in this step, with no failure injected.
DuplicateEnds(t) ==
  /\ Storing(t) /\ tasks[t].type = PurchaseOrderType /\ tasks[t].tx.state = "struct"
  /\ tasks'[t].tx.state # "struct" /\ faults' = faults
  /\ \E r \in erp_purchase_orders : r.id = Current(t).id

\* C31: storing an order whose id is already in the store leaves the raw log
\* and the structured table as they were, whatever the new payload is, and
\* the transaction is committed: the handler records a successful store that
\* wrote nothing.
DuplicateIsNoOp ==
  [][\A t \in TaskIds :
       DuplicateEnds(t) =>
         /\ UNCHANGED <<raw_erp_data, erp_purchase_orders>>
         /\ \E c \in commits' : c.id = Current(t).id /\ c.task = t
         /\ storeFailed' = storeFailed
         /\ \A r \in replies' \ replies : r.stored /\ ~r.wrote /\ r.code = 202]_vars

\* The order and its altered copy have both been delivered and handled; one
\* store wrote nothing, and the rows are those of the first payload stored.
DuplicateIsNoOpWitness ==
  /\ \E i, j \in DOMAIN purchaseOrders :
       /\ purchaseOrders[i].id = purchaseOrders[j].id
       /\ purchaseOrders[i].status # purchaseOrders[j].status
       /\ \A d \in deliveries : d.po.id # purchaseOrders[i].id
       /\ Cardinality({r \in replies : r.id = purchaseOrders[i].id}) = 2
       /\ \E r \in replies : r.id = purchaseOrders[i].id /\ r.stored /\ ~r.wrote
       /\ \E r \in replies : r.id = purchaseOrders[i].id /\ r.stored /\ r.wrote
       /\ Cardinality({r \in erp_purchase_orders : r.id = purchaseOrders[i].id}) = 1
       /\ Cardinality({r \in raw_erp_data : r.erp_record_id = purchaseOrders[i].id}) = 1
  /\ \A t \in TaskIds : tasks[t].kind = "idle"

----------------------------------------------------------------------------
(* Properties of the simulator's steps *)

\* C32: every order whose delivery (supply-at) time stamp has been reached by
\* the simulated clock has status supplied.  The order record of the code has
\* no execute-at time stamp, so the part about executed has no state to
\* speak of.
LifecycleProgress ==
  \A i \in DOMAIN purchaseOrders :
    purchaseOrders[i].deliveryDate <= simNow => purchaseOrders[i].status = "supplied"

\* The snapshots of item c, in the order of the list.
SnapshotsOf(snaps, c) == SelectSeq(snaps, LAMBDA sn : sn.commodityId = c)

\* The step function of the claim: consumption floored at zero, then the
\* deliveries that are due.
StepFunction(onHand, rate, d, due) == Max(0, onHand - rate * d) + SumQuantity(due)

\* The deliveries of item c, among those of the orders pos, with a time stamp
\* after from and at or before to.
DueBetween(pos, c, from, to) ==
  {DeliveryOf(po) : po \in {p \in pos : /\ p.commodityId = c
                                        /\ from < p.deliveryDate
                                        /\ p.deliveryDate <= to}}

\* Every step of the bootstrap, read off its snapshots: the first snapshot of
\* an item is its initial inventory and each later one is the step function
\* of the one before, over stepDays days.
BootstrapStepsApply ==
  \A c \in DOMAIN inventoryByCommodity' :
    LET ss == SnapshotsOf(inventorySnapshots', c)
        rate == Lookup(options.consumptionPerDay, c, 0)
    IN /\ Len(ss) >= 2
       /\ ss[1].onHand = initialInventoryMap[c]
       /\ \A j \in 1..(Len(ss) - 1) :
            /\ ss[j + 1].asOf = ss[j].asOf + options.stepDays
            /\ ss[j + 1].onHand =
                 StepFunction(ss[j].onHand, rate, options.stepDays,
                              DueBetween(Range(purchaseOrders'), c, ss[j].asOf, ss[j + 1].asOf))
       /\ inventoryByCommodity'[c] = ss[Len(ss)].onHand

\* A live step: the step function over the days the clock advances, with the
\* deliveries pending before the step or created in it that are due by its end.
LiveStepApplies ==
  \A c \in DOMAIN inventoryByCommodity :
    LET known == Range(pendingDeliveries) \cup {DeliveryOf(po) : po \in CreatedInStep}
        due == {d \in known : d.commodityId = c /\ d.deliveryDate <= simNow'}
    IN /\ inventoryByCommodity'[c] =
            StepFunction(inventoryByCommodity[c], Lookup(options.consumptionPerDay, c, 0),
                         simNow' - simNow, due)
       /\ inventoryByCommodity'[c] >= SumQuantity(due)

\* C33: a step over d > 0 simulated days, of the bootstrap or live, sets each
\* item's on-hand to max(0, on-hand - rate * d) plus the quantities of the
\* pending deliveries of the item due by the end of the step; what a step
\* delivers is not reduced by the step's consumption.
InventoryStepFunction ==
  /\ [][(StartStep /\ ~options.disableHistory) => BootstrapStepsApply]_vars
  /\ [][LiveStep => LiveStepApplies]_vars

\* After a live step an item consumed down to zero holds exactly what was
\* delivered to it in a step: its last two snapshots go from less than one
\* step's consumption to a positive quantity.
InventoryStepFunctionWitness ==
  /\ simNow > NowMonthStart
  /\ \E c \in DOMAIN inventoryByCommodity :
       LET ss == SnapshotsOf(inventorySnapshots, c)
       IN /\ Len(ss) >= 3
          /\ ss[Len(ss) - 1].onHand < Lookup(options.consumptionPerDay, c, 0) * options.stepDays
          /\ ss[Len(ss)].onHand > 0
          /\ inventoryByCommodity[c] = ss[Len(ss)].onHand

\* The snapshots a step has appended.
AppendedSnapshots ==
  SubSeq(inventorySnapshots', Len(inventorySnapshots) + 1, Len(inventorySnapshots'))

\* A live tick advances the clock by the configured step and appends one
\* snapshot per configured item, stamped with the new clock value; onHand(c)
\* is the on-hand quantity the snapshot of item c is to carry.
TickRecords(onHand(_)) ==
  /\ simNow' = simNow + options.stepDays
  /\ Len(inventorySnapshots') = Len(inventorySnapshots) + Len(options.commodities)
  /\ SubSeq(inventorySnapshots', 1, Len(inventorySnapshots)) = inventorySnapshots
  /\ \A c \in Range(options.commodities) :
       Cardinality({k \in DOMAIN AppendedSnapshots :
                      AppendedSnapshots[k].commodityId = c}) = 1
  /\ \A k \in DOMAIN AppendedSnapshots :
       /\ AppendedSnapshots[k].commodityId \in Range(options.commodities)
       /\ AppendedSnapshots[k].asOf = simNow'
       /\ AppendedSnapshots[k].onHand = onHand(AppendedSnapshots[k].commodityId)

InventoryAfterStep(c) == inventoryByCommodity'[c]
RoundedInventoryAfterStep(c) == toFixed2(inventoryByCommodity'[c])

\* C34 as stated: the clock never decreases, and each live tick advances it
\* by exactly the configured step and appends exactly one snapshot per
\* configured item, with as-of the new clock value and on-hand equal to the
\* item's inventory after the step.
TickSnapshotsExact ==
  /\ [][simNow' >= simNow]_vars
  /\ [][LiveStep => TickRecords(InventoryAfterStep)]_vars

\* C34 as the code has it: the same, with the snapshot's on-hand the item's
\* inventory after the step rounded to two decimals.
TickSnapshotsRounded ==
  /\ [][simNow' >= simNow]_vars
  /\ [][LiveStep => TickRecords(RoundedInventoryAfterStep)]_vars

\* A live tick has recorded, for an item whose inventory is not a whole
\* number of hundredths, a snapshot at the clock value.
TickSnapshotsRoundedWitness ==
  /\ simNow > NowMonthStart
  /\ \E c \in DOMAIN inventoryByCommodity :
       /\ toFixed2(inventoryByCommodity[c]) # inventoryByCommodity[c]
       /\ \E k \in DOMAIN inventorySnapshots :
            /\ inventorySnapshots[k].commodityId = c
            /\ inventorySnapshots[k].asOf = simNow
            /\ inventorySnapshots[k].onHand = toFixed2(inventoryByCommodity[c])

\* The generated orders of item c created in calendar month k.
OrdersInMonth(c, k) ==
  {po \in GeneratedOrders : po.commodityId = c /\ monthKey(po.createdAt) = k}

\* C35: the generator creates at most one order per item and calendar month
\* of creation, over the backfill and the live ticks, and only in a month it
\* has considered; the months considered for an item only grow, and an order
\* is created only in a month not considered before.
OneOrderPerItemMonth ==
  /\ [](\A c \in DOMAIN generatedMonthsByCommodity :
          /\ \A k \in 0..(MaxMonth + 1) : Cardinality(OrdersInMonth(c, k)) <= 1
          /\ \A po \in GeneratedOrders :
               po.commodityId = c => monthKey(po.createdAt) \in generatedMonthsByCommodity[c])
  /\ [][\A c \in DOMAIN generatedMonthsByCommodity :
          /\ generatedMonthsByCommodity[c] \subseteq generatedMonthsByCommodity'[c]
          /\ \A po \in CreatedInStep :
               (po.id[1] = "po" /\ po.commodityId = c) =>
                 monthKey(po.createdAt) \notin generatedMonthsByCommodity[c]]_vars

\* After live ticks an item has orders in two months, one of them created by
\* a tick, and a month that was considered without an order.
OneOrderPerItemMonthWitness ==
  /\ simNow > NowMonthStart
  /\ \E c \in DOMAIN generatedMonthsByCommodity :
       /\ \E p, q \in GeneratedOrders :
            /\ p.commodityId = c /\ q.commodityId = c
            /\ monthKey(p.createdAt) < monthKey(q.createdAt)
            /\ q.createdAt >= NowMonthStart + 28
       /\ \E k \in generatedMonthsByCommodity[c] : OrdersInMonth(c, k) = {}

\* The id the raw log derives from the payload of the record behind a
\* structured row: the order id, or the snapshot id (item and as-of).
DerivedId(row) ==
  IF row.table = PurchaseOrderType THEN row.id ELSE <<row.commodity_id, row.as_of>>

\* The raw-log rows with the record type and derived id of a structured row.
RawRowsBehind(row) ==
  {r \in raw_erp_data : r.record_type = row.table /\ r.erp_record_id = DerivedId(row)}

RawStructuredConsistent ==
  /\ \A row \in structTable : RawRowsBehind(row) # {}
  /\ \A r \in raw_erp_data :
       \E row \in structTable : row.table = r.record_type /\ DerivedId(row) = r.erp_record_id

\* Orders and snapshots are stored, after a transaction was rolled back and
\* after two transactions worked on one order at once.
RawStructuredConsistentWitness ==
  /\ erp_purchase_orders # {} /\ erp_inventory_snapshots # {}
  /\ faults > 0 /\ raced # {}
  /\ \E c \in commits : c.kind = "webhook"
  /\ \E c \in commits : c.kind = "poll"

\* C38: no step of a running extractor process decreases the order
\* watermark or the inventory watermark.
WatermarksNeverDecrease ==
  [][lastSync' >= lastSync /\ lastInventorySync' >= lastInventorySync]_vars

\* Both watermarks have advanced, and a webhook handler has ended on an order
\* older than the order watermark.
WatermarksNeverDecreaseWitness ==
  /\ lastInventorySync > EpochDate
  /\ \E r \in replies : \E po \in Range(purchaseOrders) :
       po.id = r.id /\ po.createdAt < lastSync
  /\ \A t \in TaskIds : tasks[t].kind = "idle"

----------------------------------------------------------------------------
(* Properties of the simulator's rejected requests *)

\* What a rejected request must leave as it was.
SimulatorDataUnchanged == UNCHANGED <<subscriptions, purchaseOrders, inventorySnapshots>>

====
